---- MODULE Spec2Model ----
(***************************************************************************)
(* Verification model of taskflow_ai.                                      *)
(*                                                                         *)
(* Part 1: the greedy scheduler of taskflow_ai/ai/scheduler.py             *)
(*         (build_greedy_schedule and the helpers it calls).               *)
(* Part 2: the creation of AI Task Profile documents by                    *)
(*         generate_ai_task_profile, generate_predictions,                 *)
(*         auto_create_ai_profile and regenerate_task_predictions.         *)
(* Part 3: the same creation when two requests or jobs interleave.         *)
(* Part 4: leads, Project Planning documents and the Projects made from    *)
(*         them.                                                           *)
(* Part 5: the predictors of ai/pipeline.py, api/ai_predictions.py and     *)
(*         utils.auto_create_ai_profile, and AITaskProfile.validate.       *)
(* Part 6: the two assignee rankers.                                       *)
(*                                                                         *)
(* Units.  predicted_duration_hours and workload hours are kept in tenths  *)
(* of an hour (the predictors round to one decimal), the scheduler's       *)
(* duration_hours after int() is in whole hours, utilization is in tenths  *)
(* of a percent (1200 is 120%), dates are day numbers.  An optional value  *)
(* is a sequence of length 0 (Python None) or 1.                           *)
(***************************************************************************)
EXTENDS Integers, Sequences, FiniteSets, TLC

VARIABLES
    tasks,          \* build_greedy_schedule argument: list of task rows
    employees,      \* build_greedy_schedule argument: the employee pool
    objective,      \* build_greedy_schedule argument
    schedule,       \* the local dict "schedule" of build_greedy_schedule
    sorted_tasks,   \* the local list sorted_tasks
    idx,            \* position of the for loop over sorted_tasks
    current_date,   \* the anchor date getdate(nowdate())
    pc,             \* "idle", "assign" (inside the loop), "done" (returned)
    returned,       \* the schedules returned by the runs so far
    task_docs,      \* names of the Task documents that exist
    profiles,       \* the AI Task Profile documents that exist
    profile_seq,    \* number of AI Task Profile documents ever inserted
    api_calls,      \* number of profile operations run so far
    proc,           \* the requests and jobs in flight: proc[w] is worker w
    lead_status,    \* Lead name -> status
    plannings,      \* the Project Planning documents
    projects,       \* the Project documents
    task_in,        \* the Task the predictors are run on
    predicted,      \* the predictions computed last, with their producer
    saved_doc,      \* the AI Task Profile of task_in as stored, if any
    hash_variance,  \* this Python process's randint outcome per hash() key
    ranked,         \* the ranker calls made so far and what they returned
    active_employees,   \* the Active employees, ordered by name
    template_category,  \* the template category of the task being ranked
    recommended,    \* what pipeline.get_assignee_recommendations returned
    task_hash,      \* abs(hash(task_doc.name)) % 10 in this Python process
    due_days,       \* days from the base date to the predicted due date
    lead_segment,   \* per lead: what its custom_lead_segment points to
    last_submit,    \* the last submission of a planning and how it ended
    project_tasks,  \* the Task rows of the project, in creation order
    task_levels,    \* what organize_tasks_by_dependency returned
    task_dates,     \* the dates schedule_project_tasks saved, in saving order
    schedule_result, \* what schedule_project_tasks returned
    dated_tasks,    \* the Task table before fix_duplicate_dates
    fixed_tasks,    \* the Task table after fix_duplicate_dates
    fix_result      \* how fix_duplicate_dates ended

vars == <<tasks, employees, objective, schedule, sorted_tasks, idx,
          current_date, pc, returned, task_docs, profiles, profile_seq,
          api_calls, proc, lead_status, plannings, projects, task_in,
          predicted, saved_doc, hash_variance, ranked, active_employees,
          template_category, recommended, task_hash, due_days, lead_segment,
          last_submit, project_tasks, task_levels, task_dates,
          schedule_result, dated_tasks, fixed_tasks, fix_result>>

schedVars == <<tasks, employees, objective, schedule, sorted_tasks, idx,
               current_date, pc, returned>>

profileVars == <<task_docs, profiles, profile_seq, api_calls>>

raceVars == <<proc>>

leadVars == <<lead_status, plannings, projects, lead_segment, last_submit>>

predVars == <<task_in, predicted, saved_doc, task_hash, due_days>>

rankVars == <<hash_variance, ranked>>

pipeVars == <<active_employees, template_category, recommended>>

tsVars == <<project_tasks, task_levels, task_dates, schedule_result,
            dated_tasks, fixed_tasks, fix_result>>

\* what the scheduler leaves alone, what the sequential profile operations
\* leave alone, and so on for each part
notSched == <<profileVars, raceVars, leadVars, predVars, rankVars, pipeVars,
              tsVars>>

notProfile == <<schedVars, raceVars, leadVars, predVars, rankVars, pipeVars,
                tsVars>>

notRace == <<schedVars, leadVars, predVars, rankVars, pipeVars, tsVars>>

notLead == <<schedVars, profileVars, raceVars, predVars, rankVars, pipeVars,
             tsVars>>

notPred == <<schedVars, profileVars, raceVars, leadVars, rankVars, pipeVars,
             tsVars>>

notRank == <<schedVars, profileVars, raceVars, leadVars, predVars, pipeVars,
             tsVars>>

notPipe == <<schedVars, profileVars, raceVars, leadVars, predVars, rankVars,
             tsVars>>

notTs == <<schedVars, profileVars, raceVars, leadVars, predVars, rankVars,
           pipeVars>>

(***************************************************************************)
(* Bounds of the model.                                                    *)
(***************************************************************************)
MaxTasks == 3

MaxRuns == 2

MaxProfileCalls == 5

(***************************************************************************)
(* Generic helpers.                                                        *)
(***************************************************************************)
None == <<>>

Some(x) == <<x>>

\* Python "x or d" on an optional number: None and 0 are falsy.
OrDefault(x, d) == IF x = None \/ x[1] = 0 THEN d ELSE x[1]

\* a field that holds a str that is no number, where a number is expected
NonNumeric == <<"str", "n/a">>

IsNonNumeric(x) == Len(x) = 2

Min(a, b) == IF a <= b THEN a ELSE b

Max(a, b) == IF a >= b THEN a ELSE b

RECURSIVE SumSeq(_)
SumSeq(s) == IF s = <<>> THEN 0 ELSE Head(s) + SumSeq(Tail(s))

\* Python tuple comparison a < b for two integer tuples of equal length.
RECURSIVE LexLess(_, _)
LexLess(a, b) ==
    IF a = <<>> THEN FALSE
    ELSE IF Head(a) < Head(b) THEN TRUE
    ELSE IF Head(a) > Head(b) THEN FALSE
    ELSE LexLess(Tail(a), Tail(b))

\* Insert item x (with key k) into a list of <<key, item>> pairs that is
\* sorted by key, after every pair whose key is not greater: a stable sort.
RECURSIVE InsertStable(_, _)
InsertStable(sortedPairs, p) ==
    IF sortedPairs = <<>> THEN <<p>>
    ELSE IF LexLess(p[1], Head(sortedPairs)[1])
         THEN <<p>> \o sortedPairs
         ELSE <<Head(sortedPairs)>> \o InsertStable(Tail(sortedPairs), p)

RECURSIVE StableSortPairs(_)
StableSortPairs(pairs) ==
    IF pairs = <<>> THEN <<>>
    ELSE InsertStable(StableSortPairs(SubSeq(pairs, 1, Len(pairs) - 1)),
                      pairs[Len(pairs)])

\* sorted(items, key=...) where keys[i] is the key of items[i].
SortedByKey(items, keys) ==
    LET pairs == [i \in 1..Len(items) |-> <<keys[i], items[i]>>]
        res == StableSortPairs(pairs)
    IN [i \in 1..Len(items) |-> res[i][2]]

(***************************************************************************)
(* Part 1.  The scheduler.                                                 *)
(***************************************************************************)
WeeklyCapacityHours == 40

DefaultDurationHours == 8

HoursPerDay == 8

MaxRecommendedUtilization == 120

MaxFallbackUtilization == 100

RecommendationLimit == 3

FallbackFitScore == 60

FallbackReasoning == "Assigned based on availability"

ConflictReason == "No suitable employee available"

\* get_priority_weight
get_priority_weight(priority) ==
    CASE priority = "Low" -> 1
      [] priority = "Medium" -> 2
      [] priority = "High" -> 3
      [] priority = "Urgent" -> 4
      [] OTHER -> 2

\* duration_hours / 40 * 100, in tenths of a percent
UtilizationOfHours(duration_hours) ==
    (duration_hours * 100 * 10) \div WeeklyCapacityHours

\* get_available_employees: current_utilization from the workload (tenths of
\* an hour, None when the employee has no open task with a profile).
current_utilization_of(predicted_workload_hours) ==
    LET workload_hours == OrDefault(predicted_workload_hours, 0)
    IN Min((workload_hours * 100) \div WeeklyCapacityHours,
           MaxFallbackUtilization * 10)

\* get_task_assignee_recommendations: ORDER BY rank LIMIT 3.  SQL leaves the
\* order of rows with equal rank open, so the result is a set of outcomes.
get_task_assignee_recommendations(stored) ==
    LET n == Len(stored)
        orders == {p \in [1..n -> 1..n] :
                     /\ \A i, j \in 1..n : i # j => p[i] # p[j]
                     /\ \A i, j \in 1..n :
                          i < j => stored[p[i]].rank <= stored[p[j]].rank}
    IN {SubSeq([i \in 1..n |-> stored[p[i]]], 1, Min(RecommendationLimit, n)) :
          p \in orders}


\* Variant: slip risk ascending in the first two objectives' keys.
SortKey_SlipAscending(task, obj) ==
    LET weight == get_priority_weight(task.priority)
        slip == OrDefault(task.slip_risk_percentage, 0)
        dur == IF IsNonNumeric(task.predicted_duration_hours) THEN 0
               ELSE OrDefault(task.predicted_duration_hours,
                              DefaultDurationHours * 10)
    IN CASE obj = "minimize_delays" -> <<0 - weight, slip>>
         [] obj = "maximize_throughput" -> <<dur, 0 - weight>>
         [] OTHER -> <<0 - weight, slip * 5, dur * 3>>

\* The sort key of build_greedy_schedule for one task row.  Slip risk and
\* duration keep the factors 0.5 and 0.3 as 5 and 3 (both sides of every
\* comparison carry the same scale).
SortKey(task, obj) ==
    LET weight == get_priority_weight(task.priority)
        slip == OrDefault(task.slip_risk_percentage, 0)
        dur == IF IsNonNumeric(task.predicted_duration_hours) THEN 0
               ELSE OrDefault(task.predicted_duration_hours,
                              DefaultDurationHours * 10)
    IN CASE obj = "minimize_delays" -> <<0 - weight, 0 - slip>>
         [] obj = "maximize_throughput" -> <<dur, 0 - weight>>
         [] OTHER -> <<0 - weight, 0 - (slip * 5), dur * 3>>

\* sorted(tasks, key=...)
SortTasks(ts, obj) ==
    SortedByKey(ts, [i \in 1..Len(ts) |-> SortKey(ts[i], obj)])

\* sorted(tasks, key=...) raises TypeError: "maximize_throughput" compares
\* the durations of the rows, a str with a number; the last branch
\* multiplies every duration by 0.3
SortRaises(ts, obj) ==
    LET texts == {i \in 1..Len(ts) :
                     IsNonNumeric(ts[i].predicted_duration_hours)}
    IN  CASE obj = "minimize_delays" -> FALSE
          [] obj = "maximize_throughput" ->
                 texts # {} /\ texts # 1..Len(ts)
          [] OTHER -> texts # {}

\* Variant: the per-employee bookkeeping of the previous call is kept.
InitEmployeeSchedules_Shared(emps) ==
    IF DOMAIN schedule.employee_schedules = {emps[i].name : i \in 1..Len(emps)}
    THEN schedule.employee_schedules
    ELSE [n \in {emps[i].name : i \in 1..Len(emps)} |->
            LET emp == CHOOSE e \in {emps[i] : i \in 1..Len(emps)} : e.name = n
            IN [blocks |-> <<>>, total_hours |-> 0,
                utilization |-> emp.current_utilization]]

\* "Initialize employee schedules"
InitEmployeeSchedules(emps) ==
    [n \in {emps[i].name : i \in 1..Len(emps)} |->
        LET emp == CHOOSE e \in {emps[i] : i \in 1..Len(emps)} : e.name = n
        IN [blocks |-> <<>>, total_hours |-> 0,
            utilization |-> emp.current_utilization]]

NewSchedule(emps) ==
    [work_blocks |-> <<>>,
     employee_schedules |-> InitEmployeeSchedules(emps),
     conflicts |-> <<>>,
     total_duration_days |-> 0]

\* duration_hours = task.get("predicted_duration_hours") or 8, then int()
DurationHours(task) ==
    OrDefault(task.predicted_duration_hours, DefaultDurationHours * 10) \div 10

\* Variant: the test looks at the current utilization only.
HasCapacity_CurrentOnly(emp_schedule, duration_hours) ==
    emp_schedule.utilization <= MaxRecommendedUtilization * 10

\* the capacity test of the recommended path
HasCapacity(emp_schedule, duration_hours) ==
    emp_schedule.utilization + UtilizationOfHours(duration_hours)
        <= MaxRecommendedUtilization * 10

\* Variant: "<=" in place of "<".
IsAvailable_Inclusive(emp_schedule) ==
    emp_schedule.utilization <= MaxFallbackUtilization * 10

\* the test of the list comprehension that builds available_employees
IsAvailable(emp_schedule) ==
    emp_schedule.utilization < MaxFallbackUtilization * 10

RECURSIVE MaxEndDate(_)
MaxEndDate(blocks) ==
    IF Len(blocks) = 1 THEN blocks[1].end_date
    ELSE Max(blocks[1].end_date, MaxEndDate(Tail(blocks)))

\* Variant: the next block starts on the day the last one ends.
find_next_available_slot_SameDay(emp_schedule, cur_date, duration_hours) ==
    IF emp_schedule.blocks # <<>>
    THEN MaxEndDate(emp_schedule.blocks)
    ELSE cur_date

\* find_next_available_slot
find_next_available_slot(emp_schedule, cur_date, duration_hours) ==
    IF emp_schedule.blocks # <<>>
    THEN MaxEndDate(emp_schedule.blocks) + 1
    ELSE cur_date

\* calculate_end_date
calculate_end_date(start_date, duration_hours) ==
    LET hours == IF duration_hours = 0 THEN DefaultDurationHours
                 ELSE duration_hours
        duration_days == Max(1, hours \div HoursPerDay)
    IN start_date + duration_days

\* Variant: utilization is overwritten instead of accumulated.
UpdatedEmployeeSchedule_Overwrite(emp_schedule, work_block) ==
    [blocks |-> Append(emp_schedule.blocks, work_block),
     total_hours |-> emp_schedule.total_hours + work_block.duration_hours,
     utilization |->
         IF work_block.duration_hours > 0
         THEN UtilizationOfHours(work_block.duration_hours)
         ELSE emp_schedule.utilization]

\* The bookkeeping after a block is created: blocks.append, total_hours +=,
\* and utilization += under the guard "duration_hours and duration_hours > 0".
UpdatedEmployeeSchedule(emp_schedule, work_block) ==
    [blocks |-> Append(emp_schedule.blocks, work_block),
     total_hours |-> emp_schedule.total_hours + work_block.duration_hours,
     utilization |->
         IF work_block.duration_hours > 0
         THEN emp_schedule.utilization
                  + UtilizationOfHours(work_block.duration_hours)
         ELSE emp_schedule.utilization]

\* The body shared by both paths: create the work block and add it to the
\* schedule and to the employee's bookkeeping.
AddWorkBlock(sched, task, employee, fit_score, reasoning, cur_date) ==
    LET emp_schedule == sched.employee_schedules[employee]
        duration_hours == DurationHours(task)
        start_date == find_next_available_slot(emp_schedule, cur_date,
                                               duration_hours)
        end_date == calculate_end_date(start_date, duration_hours)
        work_block == [task |-> task.name, employee |-> employee,
                       start_date |-> start_date, end_date |-> end_date,
                       duration_hours |-> duration_hours,
                       fit_score |-> fit_score, reasoning |-> reasoning]
    IN [sched EXCEPT !.work_blocks = Append(@, work_block),
                     !.employee_schedules[employee] =
                         UpdatedEmployeeSchedule(emp_schedule, work_block)]

\* Variant: the loop keeps the last recommendation that fits.
FirstAccepted_Last(task, sched) ==
    LET recs == task.assignee_recommendations
        ok == {i \in 1..Len(recs) :
                 /\ recs[i].employee \in DOMAIN sched.employee_schedules
                 /\ sched.employee_schedules[recs[i].employee].utilization
                      + UtilizationOfHours(DurationHours(task))
                      <= MaxRecommendedUtilization * 10}
    IN IF ok = {} THEN 0 ELSE CHOOSE i \in ok : \A j \in ok : i >= j

\* Index of the first recommendation that is accepted, 0 if there is none.
FirstAccepted(task, sched) ==
    LET recs == task.assignee_recommendations
        ok == {i \in 1..Len(recs) :
                 /\ recs[i].employee \in DOMAIN sched.employee_schedules
                 /\ HasCapacity(sched.employee_schedules[recs[i].employee],
                                DurationHours(task))}
    IN IF ok = {} THEN 0 ELSE CHOOSE i \in ok : \A j \in ok : i <= j

\* Variant: the list is not sorted by utilization.
AvailableEmployees_Unsorted(emps, sched) ==
    LET Test(e) == sched.employee_schedules[e.name].utilization
                       < MaxFallbackUtilization * 10
    IN SelectSeq(emps, Test)

\* available_employees after the list comprehension and the sort
AvailableEmployees(emps, sched) ==
    LET Test(e) == IsAvailable(sched.employee_schedules[e.name])
        avail == SelectSeq(emps, Test)
    IN SortedByKey(avail,
          [i \in 1..Len(avail) |->
              <<sched.employee_schedules[avail[i].name].utilization>>])

\* assign_task_to_employee raises ValueError: int(duration_hours) is
\* evaluated for the first recommended employee that has a schedule, and
\* on the fallback path when an employee is available
AssignRaises(task, emps, sched) ==
    /\ IsNonNumeric(task.predicted_duration_hours)
    /\ \/ \E i \in 1..Len(task.assignee_recommendations) :
              task.assignee_recommendations[i].employee
                  \in DOMAIN sched.employee_schedules
       \/ AvailableEmployees(emps, sched) # <<>>

\* assign_task_to_employee: the schedule it leaves and the value it returns
assign_task_to_employee(task, emps, sched, cur_date) ==
    LET recs == task.assignee_recommendations
        i == FirstAccepted(task, sched)
        available_employees == AvailableEmployees(emps, sched)
    IN IF i # 0
       THEN [assigned |-> TRUE,
             schedule |-> AddWorkBlock(sched, task, recs[i].employee,
                              recs[i].fit_score, recs[i].reasoning, cur_date)]
       ELSE IF available_employees # <<>>
       THEN [assigned |-> TRUE,
             schedule |-> AddWorkBlock(sched, task,
                              available_employees[1].name, FallbackFitScore,
                              FallbackReasoning, cur_date)]
       ELSE [assigned |-> FALSE, schedule |-> sched]

\* Variant: the conflict entry is not appended.
RecordConflict_Dropped(sched, task) == sched

\* schedule["conflicts"].append(...)
RecordConflict(sched, task) ==
    [sched EXCEPT !.conflicts =
        Append(@, [task |-> task.name, reason |-> ConflictReason])]

\* "Calculate total project duration"
TotalDurationDays(sched, cur_date) ==
    IF sched.work_blocks # <<>>
    THEN MaxEndDate(sched.work_blocks) - cur_date
    ELSE 0

(***************************************************************************)
(* Inputs of the scheduler.                                                *)
(***************************************************************************)
Today == 0

Rec(employee, rank) ==
    [employee |-> employee, fit_score |-> 100 - 10 * rank, rank |-> rank,
     reasoning |-> "Recommended"]

\* Task rows as get_project_tasks_with_ai reads them (before the enrichment):
\* priority, slip risk and duration of the profile (None without a profile)
\* and the stored child rows of recommended assignees.  "E3" is an employee
\* that is not in the pool.
TaskChoices ==
    { [priority |-> "Urgent", slip_risk_percentage |-> Some(40),
       predicted_duration_hours |-> Some(400),
       stored |-> <<Rec("E3", 1), Rec("E3", 2), Rec("E2", 4), Rec("E1", 3)>>],
      [priority |-> "Low", slip_risk_percentage |-> None,
       predicted_duration_hours |-> None,
       stored |-> <<>>],
      [priority |-> "Medium", slip_risk_percentage |-> Some(40),
       predicted_duration_hours |-> Some(85),
       stored |-> <<Rec("E1", 2), Rec("E2", 1)>>],
      [priority |-> "Unset", slip_risk_percentage |-> Some(10),
       predicted_duration_hours |-> Some(5),
       stored |-> <<Rec("E3", 1)>>],
      [priority |-> "High", slip_risk_percentage |-> Some(10),
       predicted_duration_hours |-> Some(165),
       stored |-> <<Rec("E1", 1), Rec("E2", 1)>>],
      [priority |-> "Urgent", slip_risk_percentage |-> None,
       predicted_duration_hours |-> Some(0),
       stored |-> <<>>] }

\* get_project_tasks_with_ai: every row enriched with its recommendations
EnrichedChoices ==
    UNION { { [priority |-> c.priority,
               slip_risk_percentage |-> c.slip_risk_percentage,
               predicted_duration_hours |-> c.predicted_duration_hours,
               assignee_recommendations |-> r] :
              r \in get_task_assignee_recommendations(c.stored) } :
            c \in TaskChoices }

TaskLists ==
    UNION { { [i \in 1..n |->
                 [name |-> i,
                  priority |-> f[i].priority,
                  slip_risk_percentage |-> f[i].slip_risk_percentage,
                  predicted_duration_hours |-> f[i].predicted_duration_hours,
                  assignee_recommendations |-> f[i].assignee_recommendations]] :
              f \in [1..n -> EnrichedChoices] } :
            n \in 0..MaxTasks }

PoolNames == <<"E1", "E2">>

Workloads == {None, Some(250), Some(480)}

\* get_available_employees
Pools ==
    { [i \in 1..Len(PoolNames) |->
         [name |-> PoolNames[i],
          current_utilization |-> current_utilization_of(w[i])]] :
      w \in [1..Len(PoolNames) -> Workloads] }

Objectives == {"minimize_delays", "maximize_throughput", "balanced", "fastest"}

(***************************************************************************)
(* No Task and no AI Task Profile exists; the scheduler leaves them alone.  *)
(***************************************************************************)
Workers == {1, 2}

\* a worker that is not running anything
IdleWorker == [pc |-> "idle", op |-> "", task |-> "", found |-> 0]

\* no request and no background job is running
RaceIdle == proc = [w \in Workers |-> IdleWorker]

\* a Task with no keyword in its subject and nothing else filled in
PlainTask == [subject |-> {}, description |-> None, priority |-> FALSE,
              project |-> None, template |-> None]

\* no predictor has run
PredIdle ==
    /\ task_in = PlainTask
    /\ predicted = None
    /\ saved_doc = None
    /\ task_hash = 0
    /\ due_days = None

RankEmployees ==
    <<[name |-> "EMP-1", department |-> "IT", designation |-> "Developer"],
      [name |-> "EMP-2", department |-> "HR", designation |-> "Consultant"],
      [name |-> "EMP-3", department |-> "Digital Marketing",
       designation |-> "Consultant"]>>

\* the task subjects the rankers are called with, as the keywords they hold
RankSubjects == {{"setup"}, {"training"}}

\* the strings employee.name + task_subject that get hashed
HashKeys == {<<RankEmployees[i].name, subject>> :
                i \in 1..Len(RankEmployees), subject \in RankSubjects}

\* no ranker has been called
RankIdle ==
    /\ hash_variance = [k \in HashKeys |-> 0]
    /\ ranked = <<>>

\* get_assignee_recommendations has not been called, no employee is Active
PipeIdle ==
    /\ active_employees = <<>>
    /\ template_category = ""
    /\ recommended = None

\* neither schedule_project_tasks nor fix_duplicate_dates has been called
TaskSchedulerIdle ==
    /\ project_tasks = <<>>
    /\ task_levels = <<>>
    /\ task_dates = <<>>
    /\ schedule_result = None
    /\ dated_tasks = <<>>
    /\ fixed_tasks = <<>>
    /\ fix_result = "idle"

Leads == {"LEAD-1", "LEAD-2"}

\* no Project Planning and no Project exists; the leads are new
LeadIdle ==
    /\ lead_status = [l \in Leads |-> "Open"]
    /\ plannings = {}
    /\ projects = {}
    /\ lead_segment = [l \in Leads |-> "none"]
    /\ last_submit = None

ProfileIdle ==
    /\ task_docs = {}
    /\ profiles = {}
    /\ profile_seq = 0
    /\ api_calls = 0

\* Before the first call there is no schedule; an empty one stands for it.
NoSchedule ==
    [work_blocks |-> <<>>, employee_schedules |-> <<>>, conflicts |-> <<>>,
     total_duration_days |-> 0]

SchedulerInit ==
    /\ tasks \in TaskLists
    /\ employees \in Pools
    /\ objective \in Objectives
    /\ schedule = NoSchedule
    /\ sorted_tasks = <<>>
    /\ idx = 0
    /\ current_date = Today
    /\ pc = "idle"
    /\ returned = <<>>
    /\ ProfileIdle
    /\ RaceIdle
    /\ LeadIdle
    /\ PredIdle
    /\ RankIdle
    /\ PipeIdle
    /\ TaskSchedulerIdle

\* build_greedy_schedule up to the loop over sorted_tasks
StartRun ==
    /\ pc \in {"idle", "done"}
    /\ Len(returned) < MaxRuns
    /\ IF SortRaises(tasks, objective)
       THEN /\ schedule' = NoSchedule
            /\ sorted_tasks' = <<>>
            /\ idx' = 0
            /\ pc' = "raised"
       ELSE /\ schedule' = NewSchedule(employees)
            /\ sorted_tasks' = SortTasks(tasks, objective)
            /\ idx' = 1
            /\ pc' = "assign"
    /\ current_date' = Today
    /\ UNCHANGED <<tasks, employees, objective, returned>>
    /\ UNCHANGED notSched

\* one iteration of "for task in sorted_tasks"
ProcessTask ==
    /\ pc = "assign"
    /\ idx <= Len(sorted_tasks)
    /\ LET task == sorted_tasks[idx]
           res == assign_task_to_employee(task, employees, schedule,
                                          current_date)
       IN IF AssignRaises(task, employees, schedule)
          THEN /\ pc' = "raised"
               /\ UNCHANGED <<schedule, idx>>
          ELSE /\ schedule' = IF res.assigned THEN res.schedule
                              ELSE RecordConflict(res.schedule, task)
               /\ idx' = idx + 1
               /\ pc' = pc
    /\ UNCHANGED <<tasks, employees, objective, sorted_tasks, current_date,
                   returned>>
    /\ UNCHANGED notSched

\* the end of build_greedy_schedule: total duration and return
FinishRun ==
    /\ pc = "assign"
    /\ idx > Len(sorted_tasks)
    /\ schedule' = [schedule EXCEPT !.total_duration_days =
                        TotalDurationDays(schedule, current_date)]
    /\ returned' = Append(returned, schedule')
    /\ pc' = "done"
    /\ UNCHANGED <<tasks, employees, objective, sorted_tasks, idx,
                   current_date>>
    /\ UNCHANGED notSched

SchedulerNext == StartRun \/ ProcessTask \/ FinishRun

SchedulerSpec == SchedulerInit /\ [][SchedulerNext]_vars

(***************************************************************************)
(* build_greedy_schedule on task rows whose predicted_duration_hours is    *)
(* missing or None (task.get returns None for both), zero, or a str.       *)
(***************************************************************************)
MaxMalformedTasks == 2

MalformedDurations == {None, Some(0), NonNumeric}

\* the recommendations of a row: none, one for an employee of the pool,
\* one for an employee that is not in the pool
MalformedRecs == {<<>>, <<Rec("E1", 1)>>, <<Rec("E3", 1)>>}

MalformedChoices ==
    [priority : {"Medium"}, slip_risk_percentage : {None},
     predicted_duration_hours : MalformedDurations,
     assignee_recommendations : MalformedRecs]

MalformedTaskLists ==
    UNION { { [i \in 1..n |->
                 [name |-> i,
                  priority |-> f[i].priority,
                  slip_risk_percentage |-> f[i].slip_risk_percentage,
                  predicted_duration_hours |-> f[i].predicted_duration_hours,
                  assignee_recommendations |-> f[i].assignee_recommendations]] :
              f \in [1..n -> MalformedChoices] } :
            n \in 0..MaxMalformedTasks }

MalformedInit ==
    /\ tasks \in MalformedTaskLists
    /\ employees \in Pools
    /\ objective \in Objectives
    /\ schedule = NoSchedule
    /\ sorted_tasks = <<>>
    /\ idx = 0
    /\ current_date = Today
    /\ pc = "idle"
    /\ returned = <<>>
    /\ ProfileIdle
    /\ RaceIdle
    /\ LeadIdle
    /\ PredIdle
    /\ RankIdle
    /\ PipeIdle
    /\ TaskSchedulerIdle

MalformedSpec == MalformedInit /\ [][SchedulerNext]_vars

(***************************************************************************)
(* Part 2.  AI Task Profile documents.                                     *)
(*                                                                         *)
(* A profile is [name, task, model_version, recommended_assignees]; the    *)
(* child rows are kept as the sequence of their ranks.  Every operation    *)
(* runs to completion before the next one starts.                          *)
(***************************************************************************)
ActiveEmployees == 4

TaskNames == {"TASK-1", "TASK-2"}

PipelineVersion == "heuristic_v1.0_2025-08-21"

ApiVersion == "TaskFlow_AI_v2.1_2025-08"

AutoVersion == "TaskFlow-AI-v2.1-Auto"

\* frappe.db.get_value / frappe.get_all with the filter {"task": task_name}
ProfilesOf(profs, task_name) == {p \in profs : p.task = task_name}

Ranks(n) == [i \in 1..n |-> i]

\* pipeline.get_assignee_recommendations: employees[:10], then the top 5
PipelineRecs == Ranks(Min(5, Min(10, ActiveEmployees)))

\* ai_predictions.generate_assignee_recommendations: employees[:5], top 3
ApiRecs == Ranks(Min(3, Min(5, ActiveEmployees)))

\* auto_create_ai_profile: Employee Skills rows with limit=4
AutoRecs == Ranks(Min(4, ActiveEmployees))

InsertProfile(db, task_name, version, recs) ==
    [profiles |-> db.profiles \cup
                    {[name |-> db.seq + 1, task |-> task_name,
                      model_version |-> version,
                      recommended_assignees |-> recs]},
     seq |-> db.seq + 1]

\* Variant: the "profile already exists" check is missing.
generate_ai_task_profile_NoCheck(db, task_name) ==
    InsertProfile(db, task_name, PipelineVersion, PipelineRecs)

\* pipeline.generate_ai_task_profile on the database db = [profiles, seq]
generate_ai_task_profile(db, task_name) ==
    IF ProfilesOf(db.profiles, task_name) # {}
    THEN db
    ELSE InsertProfile(db, task_name, PipelineVersion, PipelineRecs)

\* ai_predictions.generate_predictions: update the profile that get_value
\* found (existing), or create one when there is none
generate_predictions(db, task_name, existing) ==
    IF ProfilesOf(db.profiles, task_name) # {}
    THEN [db EXCEPT !.profiles =
            (@ \ {existing}) \cup
              {[existing EXCEPT
                  !.model_version = ApiVersion,
                  !.recommended_assignees = @ \o ApiRecs]}]
    ELSE InsertProfile(db, task_name, ApiVersion, ApiRecs)

\* utils.auto_create_ai_profile
auto_create_ai_profile(db, task_name) ==
    IF ProfilesOf(db.profiles, task_name) # {}
    THEN db
    ELSE InsertProfile(db, task_name, AutoVersion, AutoRecs)

\* pipeline.regenerate_task_predictions: delete the profile that get_value
\* found (existing), then generate_ai_task_profile
regenerate_task_predictions(db, task_name, existing) ==
    IF ProfilesOf(db.profiles, task_name) # {}
    THEN generate_ai_task_profile(
             [db EXCEPT !.profiles = @ \ {existing}], task_name)
    ELSE generate_ai_task_profile(db, task_name)

Database == [profiles |-> profiles, seq |-> profile_seq]

\* the row get_value returns for the task; any row when there is none
FoundProfiles(task_name) ==
    IF ProfilesOf(profiles, task_name) # {}
    THEN ProfilesOf(profiles, task_name)
    ELSE {[name |-> 0, task |-> task_name, model_version |-> "",
           recommended_assignees |-> <<>>]}

Commit(db) ==
    /\ profiles' = db.profiles
    /\ profile_seq' = db.seq
    /\ api_calls' = api_calls + 1

SchedulerIdle ==
    /\ tasks = <<>>
    /\ employees = <<>>
    /\ objective = "balanced"
    /\ schedule = NoSchedule
    /\ sorted_tasks = <<>>
    /\ idx = 0
    /\ current_date = Today
    /\ pc = "idle"
    /\ returned = <<>>

ProfileInit ==
    /\ ProfileIdle
    /\ SchedulerIdle
    /\ RaceIdle
    /\ LeadIdle
    /\ PredIdle
    /\ RankIdle
    /\ PipeIdle
    /\ TaskSchedulerIdle

\* A Task document is inserted.  The doc_events that hooks.py leaves in
\* effect (its second assignment) name no Task event, so no profile is made.
InsertTask(t) ==
    /\ t \notin task_docs
    /\ task_docs' = task_docs \cup {t}
    /\ UNCHANGED <<profiles, profile_seq, api_calls>>
    /\ UNCHANGED notProfile

\* auto_create_ai_profile called on an existing task (trigger_ai_automation)
AutoCreateAiProfile(t) ==
    /\ api_calls < MaxProfileCalls
    /\ t \in task_docs
    /\ Commit(auto_create_ai_profile(Database, t))
    /\ UNCHANGED task_docs
    /\ UNCHANGED notProfile

GenerateAiTaskProfile(t) ==
    /\ api_calls < MaxProfileCalls
    /\ t \in task_docs
    /\ Commit(generate_ai_task_profile(Database, t))
    /\ UNCHANGED task_docs
    /\ UNCHANGED notProfile

GeneratePredictions(t) ==
    /\ api_calls < MaxProfileCalls
    /\ t \in task_docs
    /\ \E existing \in FoundProfiles(t) :
          Commit(generate_predictions(Database, t, existing))
    /\ UNCHANGED task_docs
    /\ UNCHANGED notProfile

RegenerateTaskPredictions(t) ==
    /\ api_calls < MaxProfileCalls
    /\ t \in task_docs
    /\ \E existing \in FoundProfiles(t) :
          Commit(regenerate_task_predictions(Database, t, existing))
    /\ UNCHANGED task_docs
    /\ UNCHANGED notProfile

ProfileNext ==
    \E t \in TaskNames :
        \/ InsertTask(t)
        \/ AutoCreateAiProfile(t)
        \/ GenerateAiTaskProfile(t)
        \/ GeneratePredictions(t)
        \/ RegenerateTaskPredictions(t)

ProfileSpec == ProfileInit /\ [][ProfileNext]_vars

(***************************************************************************)
(* Part 3.  Profile-creating executions that interleave.                   *)
(*                                                                         *)
(* Each web request and each background job is a worker with its own       *)
(* position: the "does a profile exist" read and the insert are separate   *)
(* steps, and the other worker may run between them.  The code takes no    *)
(* lock and the read is a plain frappe.db.get_value.                       *)
(***************************************************************************)
ProfileOps == {"generate_ai_task_profile", "get_task_ai_recommendations",
               "generate_predictions"}

NoProfile == 0

\* the name frappe.db.get_value(..., {"task": task_name}, "name") returns
ExistingNames(task_name) ==
    IF ProfilesOf(profiles, task_name) # {}
    THEN {p.name : p \in ProfilesOf(profiles, task_name)}
    ELSE {NoProfile}

\* A request arrives, or the worker picks the background job up.
RaceBegin(w, op, t) ==
    /\ proc[w].pc = "idle"
    /\ api_calls < MaxProfileCalls
    /\ t \in task_docs
    /\ proc' = [proc EXCEPT ![w] =
                  [pc |-> IF op = "get_task_ai_recommendations"
                          THEN "api_check" ELSE "check",
                   op |-> op, task |-> t, found |-> NoProfile]]
    /\ api_calls' = api_calls + 1
    /\ UNCHANGED <<task_docs, profiles, profile_seq>>
    /\ UNCHANGED notRace

\* api.get_task_ai_recommendations: its own get_value before it calls
\* generate_ai_task_profile
RaceApiCheck(w) ==
    /\ proc[w].pc = "api_check"
    /\ \E found \in ExistingNames(proc[w].task) :
          proc' = [proc EXCEPT ![w] =
                     IF found # NoProfile
                     THEN IdleWorker
                     ELSE [@ EXCEPT !.pc = "check"]]
    /\ UNCHANGED profileVars
    /\ UNCHANGED notRace

\* the get_value of generate_ai_task_profile and of generate_predictions
RaceCheck(w) ==
    /\ proc[w].pc = "check"
    /\ \E found \in ExistingNames(proc[w].task) :
          proc' = [proc EXCEPT ![w] =
                     IF found = NoProfile
                     THEN [@ EXCEPT !.pc = "insert"]
                     ELSE IF proc[w].op = "generate_predictions"
                          THEN [@ EXCEPT !.pc = "update", !.found = found]
                          ELSE IdleWorker]
    /\ UNCHANGED profileVars
    /\ UNCHANGED notRace

\* profile_doc.insert() / the save() of a new document
RaceInsert(w) ==
    /\ proc[w].pc = "insert"
    /\ LET db == IF proc[w].op = "generate_predictions"
                 THEN InsertProfile(Database, proc[w].task,
                                    ApiVersion, ApiRecs)
                 ELSE InsertProfile(Database, proc[w].task,
                                    PipelineVersion, PipelineRecs)
       IN  /\ profiles' = db.profiles
           /\ profile_seq' = db.seq
    /\ proc' = [proc EXCEPT ![w] = IdleWorker]
    /\ UNCHANGED <<task_docs, api_calls>>
    /\ UNCHANGED notRace

\* generate_predictions on the profile its get_value found
RaceUpdate(w) ==
    /\ proc[w].pc = "update"
    /\ profiles' =
          {IF p.name = proc[w].found
           THEN [p EXCEPT !.model_version = ApiVersion,
                          !.recommended_assignees = @ \o ApiRecs]
           ELSE p : p \in profiles}
    /\ proc' = [proc EXCEPT ![w] = IdleWorker]
    /\ UNCHANGED <<task_docs, profile_seq, api_calls>>
    /\ UNCHANGED notRace

\* the Task documents exist, no profile does, both workers are free
RaceInit ==
    /\ task_docs = TaskNames
    /\ profiles = {}
    /\ profile_seq = 0
    /\ api_calls = 0
    /\ RaceIdle
    /\ LeadIdle
    /\ PredIdle
    /\ RankIdle
    /\ SchedulerIdle
    /\ PipeIdle
    /\ TaskSchedulerIdle

RaceNext ==
    \E w \in Workers :
        \/ \E op \in ProfileOps, t \in TaskNames : RaceBegin(w, op, t)
        \/ RaceApiCheck(w)
        \/ RaceCheck(w)
        \/ RaceInsert(w)
        \/ RaceUpdate(w)

RaceSpec == RaceInit /\ [][RaceNext]_vars

(***************************************************************************)
(* Part 4.  Leads, Project Planning documents and Projects.                *)
(*                                                                         *)
(* A planning is [name, lead, planning_status, reviewed_by,                *)
(* assigned_project_manager, docstatus, generated_project]; the two user   *)
(* fields are kept as "is set", docstatus is 0 (draft), 1 (submitted) or   *)
(* 2 (cancelled), generated_project is a Project name or 0.  A project is  *)
(* [name, custom_source_lead].                                             *)
(***************************************************************************)
MaxProjects == 3

LeadStatuses == {"Open", "Interested", "Converted"}

\* enhanced_lead_conversion: the statuses that get a planning drafted
PlanningStatuses == {"Converted", "Opportunity", "Interested", "Qualified"}

\* a planning is named by its number; one is drafted per lead at most
PlanningNames == 1..Cardinality(Leads)

PlanningNamed(n) == {p \in plannings : p.name = n}

PlanningsOf(lead) == {p \in plannings : p.lead = lead}

ProjectsOf(projs, lead) == {p \in projs : p.custom_source_lead = lead}

\* a Project is inserted with custom_source_lead set to the lead
NewProject(projs, lead) ==
    projs \cup {[name |-> Cardinality(projs) + 1, custom_source_lead |-> lead,
                 custom_lead_reference |-> ""]}

\* LeadSegment.create_default_project inserts a Project that carries the
\* lead in custom_lead_reference and leaves custom_source_lead empty
create_default_project(projs, lead) ==
    projs \cup {[name |-> Cardinality(projs) + 1, custom_source_lead |-> "",
                 custom_lead_reference |-> lead]}

\* LeadSegment.create_project_from_segment up to the insert of the Project:
\* with a compatible Task Template Group the Project carries
\* custom_source_lead, without one create_default_project runs
create_project_from_segment(projs, lead, segment) ==
    IF segment = "templates" THEN NewProject(projs, lead)
    ELSE create_default_project(projs, lead)

\* enhanced_lead_conversion.auto_create_project_planning_from_lead, the
\* Lead on_update hook: the plannings after the lead was saved with status;
\* has_pm says whether a user with role Projects Manager was found
auto_create_project_planning_from_lead(lead, status, has_pm) ==
    IF status \notin PlanningStatuses THEN plannings
    ELSE IF PlanningsOf(lead) # {} THEN plannings
    ELSE plannings \cup
           {[name |-> Cardinality(plannings) + 1, lead |-> lead,
             planning_status |-> "Draft", reviewed_by |-> FALSE,
             assigned_project_manager |-> has_pm, docstatus |-> 0,
             generated_project |-> 0]}

\* what custom_lead_segment of a lead points to: nothing, an active Lead
\* Segment with a compatible Task Template Group, an active one without
\* (an inactive segment throws before anything is inserted and the default
\* workflow runs, as for "none")
SegmentKinds == {"none", "templates", "no_templates"}

\* utils.auto_process_converted_lead: nothing when a Project with this
\* custom_source_lead exists; else the Lead Segment path, and when that
\* raised after its insert (tasks_fail) or there is no segment, the default
\* workflow, which inserts a Project of its own
auto_process_converted_lead(projs, lead, segment, tasks_fail) ==
    IF ProjectsOf(projs, lead) # {} THEN projs
    ELSE IF segment = "none" THEN NewProject(projs, lead)
    ELSE LET after_segment == create_project_from_segment(projs, lead, segment)
         IN  IF tasks_fail THEN NewProject(after_segment, lead)
             ELSE after_segment

\* the name of the newest Project of the lead (order_by creation desc,
\* limit 1), 0 when there is none
LatestProject(projs, lead) ==
    IF ProjectsOf(projs, lead) = {} THEN 0
    ELSE CHOOSE n \in {p.name : p \in ProjectsOf(projs, lead)} :
            \A q \in ProjectsOf(projs, lead) : q.name <= n

\* A Lead is saved with a status; the on_update hook runs.  When the hook
\* raises (insert_raises), its except branch logs and returns None: the
\* lead keeps the status and no planning is drafted.
LeadOnUpdate(lead, status) ==
    /\ lead_status' = [lead_status EXCEPT ![lead] = status]
    /\ \E has_pm, insert_raises \in BOOLEAN :
          plannings' =
              IF insert_raises THEN plannings
              ELSE auto_create_project_planning_from_lead(lead, status,
                                                          has_pm)
    /\ UNCHANGED <<projects, lead_segment, last_submit>>
    /\ UNCHANGED notLead

\* A Project Manager is put on a draft planning in the form.
AssignProjectManager(n) ==
    \E p \in PlanningNamed(n) :
        /\ p.docstatus = 0
        /\ ~p.assigned_project_manager
        /\ plannings' = (plannings \ {p}) \cup
                          {[p EXCEPT !.assigned_project_manager = TRUE]}
        /\ UNCHANGED <<lead_status, projects, lead_segment, last_submit>>
        /\ UNCHANGED notLead

\* ProjectPlanning.approve_planning
approve_planning(n) ==
    \E p \in PlanningNamed(n) :
        /\ p.docstatus = 0
        /\ plannings' = (plannings \ {p}) \cup
                          {[p EXCEPT !.planning_status = "Approved",
                                     !.reviewed_by = TRUE]}
        /\ UNCHANGED <<lead_status, projects, lead_segment, last_submit>>
        /\ UNCHANGED notLead

\* ProjectPlanning.reject_planning
reject_planning(n) ==
    \E p \in PlanningNamed(n) :
        /\ p.docstatus = 0
        /\ plannings' = (plannings \ {p}) \cup
                          {[p EXCEPT !.planning_status = "Rejected",
                                     !.reviewed_by = TRUE]}
        /\ UNCHANGED <<lead_status, projects, lead_segment, last_submit>>
        /\ UNCHANGED notLead

\* Variant: only the status is tested.
before_submit_StatusOnly(p) ==
    p.planning_status = "Approved"

\* ProjectPlanning.before_submit: no frappe.throw, the submission goes on
before_submit(p) ==
    /\ p.planning_status = "Approved"
    /\ p.reviewed_by
    /\ p.assigned_project_manager

\* A planning is submitted: before_submit, then on_submit with
\* create_project_and_tasks and update_lead_status (whose lead save runs
\* the on_update hook, which finds this planning and drafts nothing).
SubmitPlanning(n) ==
    \E p \in PlanningNamed(n), tasks_fail \in BOOLEAN :
        /\ p.docstatus = 0
        /\ IF before_submit(p)
           THEN LET created ==
                        IF p.generated_project # 0 THEN projects
                        ELSE auto_process_converted_lead(projects, p.lead,
                                 lead_segment[p.lead], tasks_fail)
                IN  /\ projects' = created
                    /\ plannings' = (plannings \ {p}) \cup
                          {[p EXCEPT !.docstatus = 1,
                                     !.planning_status = "Approved",
                                     !.generated_project =
                                         IF p.generated_project # 0
                                         THEN p.generated_project
                                         ELSE LatestProject(created, p.lead)]}
                    /\ lead_status' =
                          [lead_status EXCEPT ![p.lead] = "Converted"]
                    /\ last_submit' = Some([planning |-> n, error |-> FALSE])
           ELSE /\ last_submit' = Some([planning |-> n, error |-> TRUE])
                /\ UNCHANGED <<lead_status, plannings, projects>>
        /\ UNCHANGED lead_segment
        /\ UNCHANGED notLead

\* ProjectPlanning.on_cancel
CancelPlanning(n) ==
    \E p \in PlanningNamed(n) :
        /\ p.docstatus = 1
        /\ plannings' = (plannings \ {p}) \cup
                          {[p EXCEPT !.docstatus = 2,
                                     !.planning_status = "Draft",
                                     !.reviewed_by = FALSE]}
        /\ UNCHANGED <<lead_status, projects, lead_segment, last_submit>>
        /\ UNCHANGED notLead

\* project_generator.generate_project_from_lead, the whitelisted endpoint
\* (also reached from automation.generate_project_from_dialog and
\* automation.on_lead_update): create_project inserts a Project with
\* custom_source_lead set to the lead.
GenerateProjectFromLead(lead) ==
    /\ Cardinality(projects) < MaxProjects
    /\ projects' = NewProject(projects, lead)
    /\ UNCHANGED <<lead_status, plannings, lead_segment, last_submit>>
    /\ UNCHANGED notLead

\* a sweep inserts a Project Planning for a lead: planning_status Draft,
\* nobody assigned
InsertPlanning(plans, lead) ==
    plans \cup {[name |-> Cardinality(plans) + 1, lead |-> lead,
                 planning_status |-> "Draft", reviewed_by |-> FALSE,
                 assigned_project_manager |-> FALSE, docstatus |-> 0,
                 generated_project |-> 0]}

\* "for lead in converted_leads: ... insert": one planning per row
RECURSIVE InsertPlannings(_, _)
InsertPlannings(plans, rows) ==
    IF rows = <<>> THEN plans
    ELSE InsertPlannings(InsertPlanning(plans, Head(rows)), Tail(rows))

\* the rows of "SELECT ... FROM tabLead l LEFT JOIN tabProject Planning pp
\* ON pp.lead = l.name WHERE l.status = 'Converted' AND pp.name IS NULL"
\* among the leads of window, in the order of window
ConvertedWithoutPlanning(window) ==
    LET Missing(lead) == /\ lead_status[lead] = "Converted"
                         /\ PlanningsOf(lead) = {}
    IN  SelectSeq(window, Missing)

\* the leads in some order (ORDER BY l.modified DESC)
LeadOrders ==
    {order \in [1..Cardinality(Leads) -> Leads] :
        \A i, j \in 1..Cardinality(Leads) : i # j => order[i] # order[j]}

\* the leads modified within the last days or minutes, in some order
LeadWindows ==
    {SubSeq(order, 1, n) : order \in LeadOrders, n \in 0..Cardinality(Leads)}

\* automated_lead_processor.auto_process_converted_leads, the hourly and
\* daily job: the Converted leads of the last 7 days without planning
AutoProcessConvertedLeads(window) ==
    /\ plannings' = InsertPlannings(plannings,
                                    ConvertedWithoutPlanning(window))
    /\ UNCHANGED <<lead_status, projects, lead_segment, last_submit>>
    /\ UNCHANGED notLead

\* real_time_monitor.setup_real_time_monitoring, the job of every 5
\* minutes: the Converted leads of the last 10 minutes without planning
SetupRealTimeMonitoring(window) ==
    /\ plannings' = InsertPlannings(plannings,
                                    ConvertedWithoutPlanning(window))
    /\ UNCHANGED <<lead_status, projects, lead_segment, last_submit>>
    /\ UNCHANGED notLead

\* real_time_monitor.emergency_lead_sweep: every Converted lead without
\* planning
EmergencyLeadSweep(order) ==
    /\ plannings' = InsertPlannings(plannings,
                                    ConvertedWithoutPlanning(order))
    /\ UNCHANGED <<lead_status, projects, lead_segment, last_submit>>
    /\ UNCHANGED notLead

\* manual_planning_helper.create_planning_for_converted_lead: the lead's
\* status is printed, not tested; validate_lead_status only warns
CreatePlanningForConvertedLead(lead) ==
    /\ plannings' = IF PlanningsOf(lead) # {} THEN plannings
                    ELSE InsertPlanning(plannings, lead)
    /\ UNCHANGED <<lead_status, projects, lead_segment, last_submit>>
    /\ UNCHANGED notLead

\* dynamic_template_system.create_project_from_template_group, a
\* whitelisted endpoint, on a draft planning whose Template Group has
\* active templates: it inserts a Project and saves the planning
CreateProjectFromTemplateGroup(n) ==
    \E p \in PlanningNamed(n) :
        /\ p.docstatus = 0
        /\ Cardinality(projects) < MaxProjects
        /\ projects' = NewProject(projects, p.lead)
        /\ plannings' = (plannings \ {p}) \cup
              {[p EXCEPT !.generated_project = Cardinality(projects) + 1]}
        /\ UNCHANGED <<lead_status, lead_segment, last_submit>>
        /\ UNCHANGED notLead

\* utils.auto_process_converted_lead is called for a lead
AutoProcessConvertedLead(lead) ==
    /\ Cardinality(projects) < MaxProjects
    /\ \E tasks_fail \in BOOLEAN :
          projects' = auto_process_converted_lead(projects, lead,
                          lead_segment[lead], tasks_fail)
    /\ UNCHANGED <<lead_status, plannings, lead_segment, last_submit>>
    /\ UNCHANGED notLead

LeadInit ==
    /\ LeadIdle
    /\ PredIdle
    /\ RankIdle
    /\ ProfileIdle
    /\ RaceIdle
    /\ SchedulerIdle
    /\ PipeIdle
    /\ TaskSchedulerIdle

LeadNext ==
    \/ \E lead \in Leads, status \in LeadStatuses : LeadOnUpdate(lead, status)
    \/ \E n \in PlanningNames :
          \/ AssignProjectManager(n)
          \/ approve_planning(n)
          \/ reject_planning(n)
          \/ SubmitPlanning(n)
          \/ CancelPlanning(n)
          \/ CreateProjectFromTemplateGroup(n)
    \/ \E lead \in Leads :
          \/ GenerateProjectFromLead(lead)
          \/ CreatePlanningForConvertedLead(lead)
    \/ \E window \in LeadWindows :
          \/ AutoProcessConvertedLeads(window)
          \/ SetupRealTimeMonitoring(window)
    \/ \E order \in LeadOrders : EmergencyLeadSweep(order)

LeadSpec == LeadInit /\ [][LeadNext]_vars

(***************************************************************************)
(* The calls that turn a lead into a Project, on leads with and without a  *)
(* Lead Segment.                                                           *)
(***************************************************************************)
ConversionInit ==
    /\ lead_status = [l \in Leads |-> "Open"]
    /\ plannings = {}
    /\ projects = {}
    /\ lead_segment \in [Leads -> SegmentKinds]
    /\ last_submit = None
    /\ PredIdle
    /\ RankIdle
    /\ ProfileIdle
    /\ RaceIdle
    /\ SchedulerIdle
    /\ PipeIdle
    /\ TaskSchedulerIdle

ConversionNext ==
    \/ \E lead \in Leads, status \in LeadStatuses : LeadOnUpdate(lead, status)
    \/ \E n \in PlanningNames :
          \/ AssignProjectManager(n)
          \/ approve_planning(n)
          \/ SubmitPlanning(n)
          \/ CancelPlanning(n)
    \/ \E lead \in Leads : AutoProcessConvertedLead(lead)

ConversionSpec == ConversionInit /\ [][ConversionNext]_vars

(***************************************************************************)
(* Part 5.  The predictors.                                                *)
(*                                                                         *)
(* A text is the set of the keywords it contains (the code tests           *)
(* "keyword in text").  Scores are in hundredths (0.3 is 30), durations    *)
(* in tenths of an hour, a template's default_duration_hours in hundredths *)
(* of an hour, slip risk in hundredths of a percent (80% is 8000, the      *)
(* 0.22 of auto_create_ai_profile is 22).                                  *)
(*                                                                         *)
(* A task is [subject, description, priority, project, template]:          *)
(* description is None or [words, long] with long = (len > 50), priority   *)
(* says whether the field is set, project is None or the project's         *)
(* priority, template is None or [category, default_duration_hours].       *)
(***************************************************************************)
\* how many entries of the keyword list occur in the text
CountHits(keywords, text) ==
    Cardinality({i \in 1..Len(keywords) : keywords[i] \in text})

\* round(x / d) for x >= 0, no tie arising on the inputs below
RoundDiv(x, d) == (2 * x + d) \div (2 * d)

DescriptionWords(task) ==
    IF task.description = None THEN {} ELSE task.description[1].words

\* pipeline.extract_task_features: text_content
TextContent(task) == task.subject \cup DescriptionWords(task)

complexity_keywords ==
    <<"custom", "integration", "api", "complex", "advanced", "migration",
      "workflow", "automation", "report", "dashboard", "multi-company">>

\* Variant: the min(..., 1.0) is missing.
flat_complexity_score_Uncapped(text) ==
    30 + 10 * CountHits(complexity_keywords, text)

\* pipeline.extract_task_features: features["complexity_score"]
flat_complexity_score(text) ==
    Min(30 + 10 * CountHits(complexity_keywords, text), 100)

\* pipeline.extract_task_features, the features get_ai_predictions reads
extract_task_features(task) ==
    [text_content |-> TextContent(task),
     complexity_score |-> flat_complexity_score(TextContent(task)),
     project_priority |-> task.project,
     template_category |->
         IF task.template = None THEN None
         ELSE Some(task.template[1].category),
     default_duration |->
         IF task.template = None THEN None
         ELSE Some(OrDefault(task.template[1].default_duration_hours, 800))]

\* pipeline.get_ai_predictions
get_ai_predictions(features) ==
    LET base_duration == OrDefault(features.default_duration, 800)
        complexity_multiplier ==
            100 + (features.complexity_score - 50)
            + (IF "integration" \in features.text_content THEN 30 ELSE 0)
            + (IF "custom" \in features.text_content THEN 20 ELSE 0)
            + (IF "migration" \in features.text_content THEN 50 ELSE 0)
        product == base_duration * complexity_multiplier
        predicted_duration == IF product <= 0 THEN 800 * 100 ELSE product
        working_days == Max(1, predicted_duration \div (8 * 10000))
        complexity_risk ==
            IF features.complexity_score > 70 THEN 30
            ELSE IF features.complexity_score > 50 THEN 15 ELSE 0
        priority_risk ==
            IF features.project_priority = Some("Urgent") THEN 20 ELSE 0
    IN  [duration_hours |-> RoundDiv(predicted_duration, 1000),
         due_date |-> working_days,
         slip_risk |-> 100 * Min(20 + complexity_risk + priority_risk, 80),
         confidence |->
             IF features.template_category \notin {None, Some("")}
             THEN 80 ELSE 60]

high_complexity_keywords ==
    <<"integration", "migration", "complex", "advanced", "custom",
      "workflow", "api", "development", "system", "advanced", "multi-level",
      "approval">>

medium_complexity_keywords ==
    <<"configuration", "setup", "implementation", "module", "training",
      "user", "data", "report", "analysis", "business">>

low_complexity_keywords ==
    <<"basic", "simple", "update", "call", "meeting", "documentation",
      "review", "discussion", "follow-up">>

\* ai_predictions.calculate_complexity_score
calculate_complexity_score(task_subject, task_description) ==
    LET text == task_subject \cup task_description
        score == 30 + 15 * CountHits(high_complexity_keywords, text)
                    + 8 * CountHits(medium_complexity_keywords, text)
                    + 3 * CountHits(low_complexity_keywords, text)
    IN  Min(100, Max(10, score))

\* Variant: the migration bucket is tested before the call bucket.
base_hours_MigrationFirst(task_subject) ==
    IF task_subject \cap {"migration", "setup", "installation"} # {} THEN 20
    ELSE IF task_subject \cap {"discovery", "call", "meeting"} # {} THEN 4
    ELSE IF task_subject \cap {"training", "session"} # {} THEN 16
    ELSE IF task_subject \cap {"development", "custom", "workflow"} # {}
         THEN 32
    ELSE 8

\* ai_predictions.calculate_predicted_duration: the if/elif chain
base_hours(task_subject) ==
    IF task_subject \cap {"discovery", "call", "meeting"} # {} THEN 4
    ELSE IF task_subject \cap {"training", "session"} # {} THEN 16
    ELSE IF task_subject \cap {"migration", "setup", "installation"} # {}
         THEN 20
    ELSE IF task_subject \cap {"development", "custom", "workflow"} # {}
         THEN 32
    ELSE 8

\* ai_predictions.calculate_predicted_duration
calculate_predicted_duration(complexity_score, task_subject) ==
    RoundDiv(base_hours(task_subject) * (1000 + 15 * complexity_score), 100)

\* ai_predictions.calculate_slip_risk
calculate_slip_risk(complexity_score, predicted_duration_hours) ==
    LET base_risk == 1000
        complexity_risk == complexity_score * 40
        duration_risk ==
            IF predicted_duration_hours > 240 THEN 2500
            ELSE IF predicted_duration_hours > 160 THEN 1500
            ELSE IF predicted_duration_hours > 80 THEN 1000
            ELSE 500
    IN  Min(8000, Max(500, base_risk + complexity_risk + duration_risk))

\* Variant: the result is not clamped.
calculate_confidence_score_Unclamped(task, complexity_score) ==
    60 + (IF task.description # None /\ task.description[1].long
          THEN 15 ELSE 0)
       + (IF task.priority THEN 10 ELSE 0)
       + (IF task.project # None THEN 10 ELSE 0)
       + (IF task.template # None THEN 15 ELSE 0)
       - (IF complexity_score > 80 THEN 10 ELSE 0)

\* ai_predictions.calculate_confidence_score
calculate_confidence_score(task, complexity_score) ==
    LET base_confidence ==
            60 + (IF task.description # None /\ task.description[1].long
                  THEN 15 ELSE 0)
               + (IF task.priority THEN 10 ELSE 0)
               + (IF task.project # None THEN 10 ELSE 0)
               + (IF task.template # None THEN 15 ELSE 0)
               - (IF complexity_score > 80 THEN 10 ELSE 0)
    IN  Min(100, Max(30, base_confidence))

\* ai_predictions.generate_task_predictions
generate_task_predictions(task) ==
    LET complexity_score ==
            calculate_complexity_score(task.subject, DescriptionWords(task))
        predicted_duration_hours ==
            calculate_predicted_duration(complexity_score, task.subject)
    IN  [predicted_duration_hours |-> predicted_duration_hours,
         slip_risk_percentage |->
             calculate_slip_risk(complexity_score, predicted_duration_hours),
         confidence_score |-> calculate_confidence_score(task, complexity_score),
         complexity_score |-> complexity_score,
         model_version |-> ApiVersion]

\* ai_predictions.calculate_dynamic_due_date: the days it adds to the base
\* date; the duration is in tenths of an hour
calculate_dynamic_due_date(name_hash, predicted_duration_hours) ==
    LET offset_days == name_hash + 1
        working_days == Max(1, predicted_duration_hours \div (8 * 10))
        calendar_days == (working_days * 14) \div 10 + offset_days
    IN  calendar_days

\* pipeline.generate_ai_task_profile: the fields of the document it inserts
PipelineDoc(task) ==
    LET features == extract_task_features(task)
        predictions == get_ai_predictions(features)
    IN  [predicted_duration_hours |-> predictions.duration_hours,
         slip_risk_percentage |-> predictions.slip_risk,
         confidence_score |-> predictions.confidence,
         complexity_score |-> features.complexity_score,
         model_version |-> PipelineVersion]

\* utils.auto_create_ai_profile: the fields it sets from the subject
AutoDoc(task) ==
    LET row == IF "strategy" \in task.subject THEN <<140, 85, 22, 92>>
               ELSE IF "research" \in task.subject THEN <<60, 45, 12, 85>>
               ELSE IF "content" \in task.subject THEN <<80, 65, 15, 82>>
               ELSE IF "technical" \in task.subject THEN <<120, 80, 18, 89>>
               ELSE <<90, 60, 16, 80>>
    IN  [predicted_duration_hours |-> row[1],
         slip_risk_percentage |-> row[3],
         confidence_score |-> row[4],
         complexity_score |-> row[2],
         model_version |-> AutoVersion]

\* AITaskProfile.validate passes ("if self.x and (...)": 0 is not checked)
validate(doc) ==
    /\ ~(doc.confidence_score # 0
           /\ (doc.confidence_score < 0 \/ doc.confidence_score > 100))
    /\ ~(doc.complexity_score # 0
           /\ (doc.complexity_score < 0 \/ doc.complexity_score > 100))
    /\ ~(doc.slip_risk_percentage # 0
           /\ (doc.slip_risk_percentage < 0
                 \/ doc.slip_risk_percentage > 10000))

\* save()/insert() of the document: stored unless validate throws
Saved(doc) == IF validate(doc) THEN Some(doc) ELSE saved_doc

(***************************************************************************)
(* Inputs of the predictors.                                               *)
(***************************************************************************)
Subjects ==
    {{}, {"call"}, {"call", "migration"}, {"meeting", "training"},
     {"session", "development"}, {"migration"}, {"setup", "workflow"},
     {"development", "custom"}, {"strategy"}, {"research"}}

Descriptions ==
    {None,
     Some([words |-> {"integration", "api"}, long |-> FALSE]),
     Some([words |-> {"review", "update", "data"}, long |-> TRUE]),
     Some([words |-> {"custom", "integration", "api", "complex", "advanced",
                      "migration", "workflow", "automation", "report"},
           long |-> TRUE])}

\* default_duration_hours: unset, 0.05 h or 12 h (validate wants it > 0)
Templates ==
    {None,
     Some([category |-> "", default_duration_hours |-> None]),
     Some([category |-> "Setup", default_duration_hours |-> Some(5)]),
     Some([category |-> "Setup", default_duration_hours |-> Some(1200)])}

ProjectPriorities == {None, Some("Medium"), Some("Urgent")}

\* abs(hash(task_doc.name)) % 10: the hash of a str is salted per process
TaskHashes == 0..9

TaskInputs ==
    [subject : Subjects, description : Descriptions, priority : BOOLEAN,
     project : ProjectPriorities, template : Templates]

\* what a user may type into the AI Task Profile form
FormDocs ==
    {[predicted_duration_hours |-> 80, slip_risk_percentage |-> 1500,
      confidence_score |-> 92, complexity_score |-> 70,
      model_version |-> "v1.0"],
     [predicted_duration_hours |-> 80, slip_risk_percentage |-> 1500,
      confidence_score |-> 9200, complexity_score |-> 70,
      model_version |-> "v1.0"],
     [predicted_duration_hours |-> -50, slip_risk_percentage |-> 1500,
      confidence_score |-> 92, complexity_score |-> 70,
      model_version |-> "v1.0"],
     [predicted_duration_hours |-> 80, slip_risk_percentage |-> 15000,
      confidence_score |-> 92, complexity_score |-> 70,
      model_version |-> "v1.0"],
     [predicted_duration_hours |-> 80, slip_risk_percentage |-> 1500,
      confidence_score |-> 92, complexity_score |-> -20,
      model_version |-> "v1.0"]}

PredictorInit ==
    /\ task_in \in TaskInputs
    /\ predicted = None
    /\ saved_doc = None
    /\ task_hash \in TaskHashes
    /\ due_days = None
    /\ RankIdle
    /\ LeadIdle
    /\ ProfileIdle
    /\ RaceIdle
    /\ SchedulerIdle
    /\ PipeIdle
    /\ TaskSchedulerIdle

\* generate_ai_task_profile on a task that has no profile yet
PipelineProfile ==
    /\ saved_doc = None
    /\ predicted' = Some(PipelineDoc(task_in))
    /\ saved_doc' = Saved(PipelineDoc(task_in))
    /\ due_days' = Some(get_ai_predictions(
                            extract_task_features(task_in)).due_date)
    /\ UNCHANGED <<task_in, task_hash>>
    /\ UNCHANGED notPred

\* generate_predictions: creates the profile or overwrites its fields
ApiProfile ==
    /\ predicted' = Some(generate_task_predictions(task_in))
    /\ saved_doc' = Saved(generate_task_predictions(task_in))
    /\ due_days' = Some(calculate_dynamic_due_date(task_hash,
              generate_task_predictions(task_in).predicted_duration_hours))
    /\ UNCHANGED <<task_in, task_hash>>
    /\ UNCHANGED notPred

\* auto_create_ai_profile on a task that has no profile yet
AutoProfile ==
    /\ saved_doc = None
    /\ predicted' = Some(AutoDoc(task_in))
    /\ saved_doc' = Saved(AutoDoc(task_in))
    /\ due_days' = Some(AutoDoc(task_in).predicted_duration_hours \div 20)
    /\ UNCHANGED <<task_in, task_hash>>
    /\ UNCHANGED notPred

\* The profile is edited in the form and saved.
SaveForm(doc) ==
    /\ saved_doc # None
    /\ saved_doc' = Saved(doc)
    /\ UNCHANGED <<task_in, predicted, task_hash, due_days>>
    /\ UNCHANGED notPred

PredictorNext ==
    \/ PipelineProfile
    \/ ApiProfile
    \/ AutoProfile
    \/ \E doc \in FormDocs : SaveForm(doc)

PredictorSpec == PredictorInit /\ [][PredictorNext]_vars

(***************************************************************************)
(* Part 6.  The assignee rankers.                                          *)
(*                                                                         *)
(* fit_score is in tenths of a point.  Python salts hash() of a str with   *)
(* a seed drawn when the interpreter starts, so the value that             *)
(* random.seed(abs(hash(employee.name + task_subject))) leads randint to   *)
(* is fixed within a process and arbitrary from one process to the next:   *)
(* hash_variance holds it for each hashed string.                          *)
(***************************************************************************)
MaxRankCalls == 2

\* random.randint(-10, 15): the two ends of the range
Variances == {-10, 15}

\* calculate_employee_fit_score: dept_bonuses
dept_bonuses ==
    [d \in {"Digital Marketing", "IT", "Accounts", "HR", "Sales"} |->
        CASE d = "Digital Marketing" ->
                 {"marketing", "seo", "social", "content", "ads"}
          [] d = "IT" ->
                 {"development", "technical", "system", "setup", "integration"}
          [] d = "Accounts" ->
                 {"financial", "accounting", "bookkeeping", "tax"}
          [] d = "HR" -> {"training", "user", "onboarding", "support"}
          [] d = "Sales" -> {"lead", "client", "customer", "sales"}]

\* the keys of dept_bonuses whose lower case occurs in the employee's
\* department in lower case ("it" occurs in "digital marketing")
DepartmentsIn(emp_dept) ==
    CASE emp_dept = "IT" -> {"IT"}
      [] emp_dept = "HR" -> {"HR"}
      [] emp_dept = "Digital Marketing" -> {"Digital Marketing", "IT"}
      [] OTHER -> {}

\* ai_predictions.calculate_employee_fit_score
calculate_employee_fit_score(employee, task_subject, complexity) ==
    LET dept_bonus ==
            10 * Cardinality({d \in DepartmentsIn(employee.department) :
                                 dept_bonuses[d] \cap task_subject # {}})
        complexity_bonus ==
            IF complexity > 70 THEN 15 ELSE IF complexity < 30 THEN 5 ELSE 0
        base_score == 60 + dept_bonus + complexity_bonus
        variance == hash_variance[<<employee.name, task_subject>>]
    IN  10 * Max(30, Min(95, base_score + variance))

\* list.sort(key=fit_score, reverse=True), then rank = position
RankByFit(recs) ==
    LET sorted == SortedByKey(recs,
                      [i \in 1..Len(recs) |-> <<0 - recs[i].fit_score>>])
    IN  [i \in 1..Len(recs) |-> [sorted[i] EXCEPT !.rank = i]]

\* ai_predictions.generate_assignee_recommendations
generate_assignee_recommendations(task_subject, complexity) ==
    LET pool == SubSeq(RankEmployees, 1, Min(5, Len(RankEmployees)))
        recommendations ==
            [i \in 1..Len(pool) |->
                [employee |-> pool[i].name,
                 fit_score |-> calculate_employee_fit_score(
                                   pool[i], task_subject, complexity),
                 rank |-> i]]
        ranked_recs == RankByFit(recommendations)
    IN  SubSeq(ranked_recs, 1, Min(3, Len(ranked_recs)))

\* "it" in dept or "technology" in dept, on the lower-cased department
DeptIsTechnical(dept) == dept \in {"IT", "Digital Marketing"}

\* pipeline.calculate_assignee_score, fit_score in tenths of a point:
\* round(0.4 * skill + 0.3 * 70 + 0.2 * 60 + 0.1 * 75, 1)
calculate_assignee_score(employee, category) ==
    LET dept_bonus == IF DeptIsTechnical(employee.department) THEN 20 ELSE 0
        consultant_bonus ==
            IF category = "Implementation"
               /\ employee.designation = "Consultant" THEN 15 ELSE 0
        developer_bonus ==
            IF category = "Customization"
               /\ employee.designation = "Developer" THEN 25 ELSE 0
        skill_score == 60 + dept_bonus + consultant_bonus + developer_bonus
    IN  4 * Min(skill_score, 100) + 3 * 70 + 2 * 60 + 75

\* get_eligible_employees without the cut
get_eligible_employees_Uncut(all_active) == all_active

\* pipeline.get_eligible_employees: the Active employees in name order,
\* cut to the first 10
get_eligible_employees(all_active) ==
    SubSeq(all_active, 1, Min(10, Len(all_active)))

\* pipeline.get_assignee_recommendations
get_assignee_recommendations(all_active, category) ==
    LET pool == get_eligible_employees(all_active)
        recommendations ==
            [i \in 1..Len(pool) |->
                [employee |-> pool[i].name,
                 fit_score |-> calculate_assignee_score(pool[i], category),
                 rank |-> 0]]
        sorted == SortedByKey(recommendations,
                      [i \in 1..Len(pool) |->
                          <<0 - recommendations[i].fit_score>>])
        top == SubSeq(sorted, 1, Min(5, Len(sorted)))
    IN  [i \in 1..Len(top) |-> [top[i] EXCEPT !.rank = i]]

\* a Python process starts with some hash seed
RankerInit ==
    /\ hash_variance \in [HashKeys -> Variances]
    /\ ranked = <<>>
    /\ PredIdle
    /\ LeadIdle
    /\ ProfileIdle
    /\ RaceIdle
    /\ SchedulerIdle
    /\ PipeIdle
    /\ TaskSchedulerIdle

\* The worker process is restarted: a new hash seed.
RestartProcess ==
    /\ hash_variance' \in [HashKeys -> Variances]
    /\ UNCHANGED ranked
    /\ UNCHANGED notRank

\* generate_assignee_recommendations is called for a task
GenerateAssigneeRecommendations(task_subject) ==
    /\ Len(ranked) < MaxRankCalls
    /\ ranked' = Append(ranked,
          [ranker |-> "generate_assignee_recommendations",
           subject |-> task_subject,
           result |-> generate_assignee_recommendations(task_subject,
                          calculate_complexity_score(task_subject, {}))])
    /\ UNCHANGED hash_variance
    /\ UNCHANGED notRank

\* get_assignee_recommendations is called for a task
GetAssigneeRecommendations(task_subject) ==
    /\ Len(ranked) < MaxRankCalls
    /\ ranked' = Append(ranked,
          [ranker |-> "get_assignee_recommendations",
           subject |-> task_subject,
           result |-> get_assignee_recommendations(RankEmployees, "")])
    /\ UNCHANGED hash_variance
    /\ UNCHANGED notRank

RankerNext ==
    \/ RestartProcess
    \/ \E task_subject \in RankSubjects :
          \/ GenerateAssigneeRecommendations(task_subject)
          \/ GetAssigneeRecommendations(task_subject)

RankerSpec == RankerInit /\ [][RankerNext]_vars

(***************************************************************************)
(* Part 7: pipeline.get_assignee_recommendations on employee tables of     *)
(* every size up to MaxActiveEmployees.                                    *)
(***************************************************************************)
MaxActiveEmployees == 11

\* what the ranker reads of an Employee row
EmployeeKinds ==
    {[department |-> "IT", designation |-> "Developer"],
     [department |-> "Sales", designation |-> "Consultant"]}

\* features.get("template_category", "")
TemplateCategories == {"", "Implementation", "Customization"}

\* SELECT ... FROM tabEmployee WHERE status = 'Active' ORDER BY name: the
\* name of a row is its position in that order
EmployeeTables ==
    UNION {{[i \in 1..n |-> [name |-> i,
                             department |-> kinds[i].department,
                             designation |-> kinds[i].designation]] :
               kinds \in [1..n -> EmployeeKinds]} :
           n \in 0..MaxActiveEmployees}

PipeRankerInit ==
    /\ active_employees \in EmployeeTables
    /\ template_category \in TemplateCategories
    /\ recommended = None
    /\ RankIdle
    /\ PredIdle
    /\ LeadIdle
    /\ ProfileIdle
    /\ RaceIdle
    /\ SchedulerIdle
    /\ TaskSchedulerIdle

\* get_assignee_recommendations(features, task) is called
RecommendAssignees ==
    /\ recommended = None
    /\ recommended' = Some(get_assignee_recommendations(
                               active_employees, template_category))
    /\ UNCHANGED <<active_employees, template_category>>
    /\ UNCHANGED notPipe

PipeRankerNext == RecommendAssignees

PipeRankerSpec == PipeRankerInit /\ [][PipeRankerNext]_vars

(***************************************************************************)
(* Part 8.  The date scheduler of api/task_scheduler.py.  A task row is    *)
(* [name, subject, predicted_duration_hours, priority, depends_on]: name   *)
(* is a number, subject stands for the keyword the subject contains,       *)
(* predicted_duration_hours is the field of the task's AI Task Profile     *)
(* (None when there is no profile), depends_on is the set of names the     *)
(* comma separated field lists.  Name 0 is a task outside the project.     *)
(* task_levels[k] is level k - 1 of the dict the code builds.              *)
(***************************************************************************)
MaxLevels == 10

StaggerDays == 2

BufferDays == 3

\* the default priority sorts as the str "Medium"
PriorityRank(p) ==
    CASE p = "High" -> 1
      [] p = "Low" -> 2
      [] p = "Medium" -> 3
      [] OTHER -> 4

get_default_duration_from_subject(task_subject) ==
    IF task_subject = "" THEN 3
    ELSE IF task_subject \in {"call", "meeting", "discussion", "review",
                              "follow-up", "email"} THEN 1
    ELSE IF task_subject \in {"setup", "configuration", "training",
                              "documentation", "analysis"} THEN 3
    ELSE IF task_subject \in {"development", "implementation", "migration",
                              "integration", "custom"} THEN 7
    ELSE IF task_subject \in {"system", "complete", "full", "comprehensive",
                              "entire"} THEN 10
    ELSE 3

\* days; the profile's hours are truthy when set and not 0
get_task_predicted_duration(task) ==
    IF task.predicted_duration_hours # None
       /\ task.predicted_duration_hours[1] # 0
    THEN Max(1, task.predicted_duration_hours[1] \div 8)
    ELSE get_default_duration_from_subject(task.subject)

\* one pass of the for loop over remaining_tasks: a task is placed when all
\* its dependencies are in placed_tasks, which grows during the pass
RECURSIVE PlacePass(_, _, _)
PlacePass(remaining, placed_tasks, level) ==
    IF remaining = <<>> THEN [level |-> level, placed_tasks |-> placed_tasks]
    ELSE LET task == Head(remaining)
         IN IF task.depends_on \subseteq placed_tasks
            THEN PlacePass(Tail(remaining), placed_tasks \cup {task.name},
                           Append(level, task))
            ELSE PlacePass(Tail(remaining), placed_tasks, level)

NamesOf(level) == {level[i].name : i \in 1..Len(level)}

Without(remaining, level) ==
    SelectSeq(remaining, LAMBDA t : t.name \notin NamesOf(level))

\* the while loop, entered with current_level
RECURSIVE PlaceLevels(_, _, _, _)
PlaceLevels(remaining, placed_tasks, current_level, levels) ==
    IF remaining = <<>> \/ current_level >= MaxLevels THEN levels
    ELSE LET pass == PlacePass(remaining, placed_tasks, <<>>)
         IN IF pass.level = <<>>
            THEN Append(levels, remaining)
            ELSE PlaceLevels(Without(remaining, pass.level),
                             pass.placed_tasks, current_level + 1,
                             Append(levels, pass.level))

organize_tasks_by_dependency(ts) ==
    LET no_deps == SelectSeq(ts, LAMBDA t : t.depends_on = {})
        by_priority ==
            SortedByKey(ts, [i \in 1..Len(ts) |->
                                 <<PriorityRank(ts[i].priority)>>])
        level0 == IF no_deps # <<>> THEN no_deps
                  ELSE SubSeq(by_priority, 1, Min(3, Len(ts)))
    IN PlaceLevels(Without(ts, level0), NamesOf(level0), 1, <<level0>>)

\* the dates of one level, starting at level_start_date
LevelDates(level, level_start_date) ==
    [i \in 1..Len(level) |->
        [task |-> level[i].name,
         exp_start_date |-> level_start_date + (i - 1) * StaggerDays,
         exp_end_date |-> level_start_date + (i - 1) * StaggerDays
                          + get_task_predicted_duration(level[i])]]

RECURSIVE MaxDurationInLevel(_, _)
MaxDurationInLevel(level, i) ==
    IF i > Len(level) THEN 0
    ELSE Max(get_task_predicted_duration(level[i]) + (i - 1) * StaggerDays,
             MaxDurationInLevel(level, i + 1))

\* the loop over task_levels, entered at level k with current_date = date
RECURSIVE ScheduleLevels(_, _, _)
ScheduleLevels(levels, k, date) ==
    IF k > Len(levels) THEN [dates |-> <<>>, project_end_date |-> date]
    ELSE LET rest == ScheduleLevels(levels, k + 1,
                         date + MaxDurationInLevel(levels[k], 1) + BufferDays)
         IN [dates |-> LevelDates(levels[k], date) \o rest.dates,
             project_end_date |-> rest.project_end_date]

\* nowdate() is day 0
ProjectStartDate == 1

ScheduleProjectTasks ==
    /\ schedule_result = None
    /\ IF project_tasks = <<>>
       THEN /\ schedule_result' =
                   Some([status |-> "error", updated_count |-> 0])
            /\ UNCHANGED <<task_levels, task_dates>>
       ELSE LET levels == organize_tasks_by_dependency(project_tasks)
                run == ScheduleLevels(levels, 1, ProjectStartDate)
            IN /\ task_levels' = levels
               /\ task_dates' = run.dates
               /\ schedule_result' =
                      Some([status |-> "success",
                            updated_count |-> Len(run.dates)])
    /\ UNCHANGED <<project_tasks, dated_tasks, fixed_tasks, fix_result>>
    /\ UNCHANGED notTs

MaxGraphTasks == 3

MaxChainTasks == 11

\* a task with a profile of 8 hours, and one without whose subject has no
\* keyword
TaskDurationKinds ==
    {[subject |-> "call", predicted_duration_hours |-> Some(8)],
     [subject |-> "", predicted_duration_hours |-> None]}

TaskPriorities == {"High", "Medium"}

\* task lists of up to MaxGraphTasks tasks, each depending on at most one
\* name: itself, another task of the list, or a task outside the project
TaskGraphs ==
    UNION {
        {[i \in 1..n |->
             [name |-> i, subject |-> kind[i].subject,
              predicted_duration_hours |-> kind[i].predicted_duration_hours,
              priority |-> prio[i],
              depends_on |-> IF dep[i] = n + 1 THEN {} ELSE {dep[i]}]] :
           kind \in [1..n -> TaskDurationKinds],
           prio \in [1..n -> TaskPriorities],
           dep \in [1..n -> 0..(n + 1)]} :
        n \in 0..MaxGraphTasks}

\* a chain created last task first: task i depends on task i + 1
TaskChains ==
    {[i \in 1..n |->
         [name |-> i, subject |-> "", predicted_duration_hours |-> None,
          priority |-> "Medium",
          depends_on |-> IF i = n THEN {} ELSE {i + 1}]] :
      n \in 1..MaxChainTasks}

TaskSchedulerInit ==
    /\ project_tasks \in TaskGraphs \cup TaskChains
    /\ task_levels = <<>>
    /\ task_dates = <<>>
    /\ schedule_result = None
    /\ dated_tasks = <<>>
    /\ fixed_tasks = <<>>
    /\ fix_result = "idle"
    /\ SchedulerIdle
    /\ ProfileIdle
    /\ RaceIdle
    /\ LeadIdle
    /\ PredIdle
    /\ RankIdle
    /\ PipeIdle

TaskSchedulerNext == ScheduleProjectTasks

TaskSchedulerSpec == TaskSchedulerInit /\ [][TaskSchedulerNext]_vars

(***************************************************************************)
(* fix_duplicate_dates.  A row of the Task table is [status,               *)
(* exp_start_date, exp_end_date]; the name of a task is its position.      *)
(* The queries have no ORDER BY the caller chose: the rows come in some    *)
(* order of the table.                                                     *)
(***************************************************************************)
\* the WHERE clause of both queries
OpenDated(row) ==
    /\ row.status \notin {"Cancelled", "Completed"}
    /\ row.exp_start_date # None

SameDates(row, other) ==
    /\ row.exp_start_date = other.exp_start_date
    /\ row.exp_end_date = other.exp_end_date

\* the rows of the first query: one name per group HAVING COUNT(*) > 1
duplicate_dates(table, order) ==
    SelectSeq(order, LAMBDA n :
        /\ OpenDated(table[n])
        /\ \E m \in 1..Len(table) :
               m # n /\ OpenDated(table[m]) /\ SameDates(table[m], table[n])
        /\ \A i, j \in 1..Len(order) :
               (order[i] = n /\ j < i) =>
                   ~(OpenDated(table[order[j]])
                     /\ SameDates(table[order[j]], table[n])))

\* the body of the loop over duplicate_dates for the group with these dates
FixGroup(table, order, dates) ==
    LET duplicate_tasks ==
            SelectSeq(order, LAMBDA n :
                /\ table[n].status \notin {"Cancelled", "Completed"}
                /\ SameDates(table[n], dates))
    IN [n \in 1..Len(table) |->
           IF \E i \in 2..Len(duplicate_tasks) : duplicate_tasks[i] = n
           THEN LET i == CHOOSE k \in 2..Len(duplicate_tasks) :
                              duplicate_tasks[k] = n
                    new_start_date ==
                        table[n].exp_start_date[1] + (i - 1) * StaggerDays
                    original_duration ==
                        table[n].exp_end_date[1] - table[n].exp_start_date[1]
                IN [table[n] EXCEPT
                       !.exp_start_date = Some(new_start_date),
                       !.exp_end_date =
                           Some(new_start_date + original_duration)]
           ELSE table[n]]

\* the loop over the groups found at the start, each read from the table
\* as the groups before it left it
RECURSIVE FixGroups(_, _, _)
FixGroups(table, order, groups) ==
    IF groups = <<>> THEN table
    ELSE FixGroups(FixGroup(table, order, Head(groups)), order, Tail(groups))

fix_duplicate_dates(table, order) ==
    LET found == duplicate_dates(table, order)
    IN FixGroups(table, order,
                 [g \in 1..Len(found) |->
                     [exp_start_date |-> table[found[g]].exp_start_date,
                      exp_end_date |-> table[found[g]].exp_end_date]])

FixDuplicateDates ==
    /\ fix_result = "idle"
    /\ \E order \in Permutations(1..Len(dated_tasks)) :
           fixed_tasks' = fix_duplicate_dates(dated_tasks, order)
    /\ fix_result' = "success"
    /\ UNCHANGED <<project_tasks, task_levels, task_dates, schedule_result,
                   dated_tasks>>
    /\ UNCHANGED notTs

MaxDatedTasks == 3

\* undated, or one of two date pairs two days apart with the same duration
DatePairs ==
    {[exp_start_date |-> None, exp_end_date |-> None],
     [exp_start_date |-> Some(0), exp_end_date |-> Some(3)],
     [exp_start_date |-> Some(2), exp_end_date |-> Some(5)]}

DatedStatuses == {"Open", "Completed"}

DatedTables ==
    UNION {
        {[i \in 1..n |->
             [status |-> st[i], exp_start_date |-> d[i].exp_start_date,
              exp_end_date |-> d[i].exp_end_date]] :
           st \in [1..n -> DatedStatuses], d \in [1..n -> DatePairs]} :
        n \in 0..MaxDatedTasks}

FixDatesInit ==
    /\ dated_tasks \in DatedTables
    /\ fixed_tasks = dated_tasks
    /\ fix_result = "idle"
    /\ project_tasks = <<>>
    /\ task_levels = <<>>
    /\ task_dates = <<>>
    /\ schedule_result = None
    /\ SchedulerIdle
    /\ ProfileIdle
    /\ RaceIdle
    /\ LeadIdle
    /\ PredIdle
    /\ RankIdle
    /\ PipeIdle

FixDatesNext == FixDuplicateDates

FixDatesSpec == FixDatesInit /\ [][FixDatesNext]_vars

(***************************************************************************)
(* Properties of the scheduler.                                            *)
(***************************************************************************)
\* a step of the loop over sorted_tasks
ProcessStep == pc = "assign" /\ pc' = "assign" /\ idx' = idx + 1

\* a step of the loop that appended a work block
BlockAdded ==
    /\ ProcessStep
    /\ Len(schedule'.work_blocks) = Len(schedule.work_blocks) + 1

LastBlock(sched) == sched.work_blocks[Len(sched.work_blocks)]

UtilizationIn(sched, employee) ==
    sched.employee_schedules[employee].utilization

BlocksOf(sched, employee) ==
    SelectSeq(sched.work_blocks, LAMBDA b : b.employee = employee)

HoursOf(blocks) ==
    SumSeq([i \in 1..Len(blocks) |-> blocks[i].duration_hours])

\* the sum of duration_hours / 40 * 100 over the blocks, tenths of a percent
LoadOf(blocks) ==
    SumSeq([i \in 1..Len(blocks) |-> (blocks[i].duration_hours * 1000) \div 40])

SetMax(S) == CHOOSE x \in S : \A y \in S : y <= x

CountOf(entries, name) ==
    Cardinality({i \in 1..Len(entries) : entries[i].task = name})

C2_EveryTaskOnce ==
    /\ pc = "assign" =>
          Len(schedule.work_blocks) + Len(schedule.conflicts) = idx - 1
    /\ pc = "done" =>
          /\ \A i \in 1..Len(tasks) :
                CountOf(schedule.work_blocks, tasks[i].name)
                    + CountOf(schedule.conflicts, tasks[i].name) = 1
          /\ Len(schedule.work_blocks) + Len(schedule.conflicts) = Len(tasks)

\* C2 witness: a finished run with at least one block and one conflict.
C2_Witness ==
    /\ pc = "done"
    /\ schedule.work_blocks # <<>>
    /\ schedule.conflicts # <<>>
    /\ Len(tasks) = MaxTasks

\* the condition of C3 in the state before the task is processed
NoSuitableEmployee(task) ==
    /\ \A i \in 1..Len(task.assignee_recommendations) :
          LET e == task.assignee_recommendations[i].employee
          IN (\E k \in 1..Len(employees) : employees[k].name = e) =>
                UtilizationIn(schedule, e)
                    + (DurationHours(task) * 1000) \div 40 > 1200
    /\ \A k \in 1..Len(employees) :
          UtilizationIn(schedule, employees[k].name) >= 1000

\* C3: a loop step appends the conflict entry for its task exactly when no
\* recommended candidate of the pool fits within 120% and no employee of the
\* pool is below 100%; otherwise the conflicts are left alone; in both cases
\* the loop goes on to the next task.
C3_ConflictExactlyWhenNobody ==
    [][(pc = "assign" /\ idx <= Len(sorted_tasks) /\ schedule' # schedule) =>
        LET task == sorted_tasks[idx]
        IN /\ IF NoSuitableEmployee(task)
              THEN /\ schedule'.conflicts =
                         Append(schedule.conflicts,
                                [task |-> task.name,
                                 reason |-> "No suitable employee available"])
                   /\ schedule'.work_blocks = schedule.work_blocks
              ELSE schedule'.conflicts = schedule.conflicts
           /\ idx' = idx + 1
           /\ pc' = "assign"]_vars

\* C3 witness: a conflict was recorded and a later task of the same run was
\* still given a work block.
C3_Witness ==
    /\ pc = "done"
    /\ schedule.conflicts # <<>>
    /\ \E i, j \in 1..Len(sorted_tasks) :
          /\ i < j
          /\ sorted_tasks[i].name = schedule.conflicts[1].task
          /\ CountOf(schedule.work_blocks, sorted_tasks[j].name) = 1

\* the recommendations of the task that fit, in the state before the step
FittingRecs(task) ==
    {i \in 1..Len(task.assignee_recommendations) :
        LET e == task.assignee_recommendations[i].employee
        IN /\ \E k \in 1..Len(employees) : employees[k].name = e
           /\ UtilizationIn(schedule, e)
                  + (DurationHours(task) * 1000) \div 40 <= 1200}

\* C4: the recommendations are in rank order, and when some recommended
\* candidate of the pool fits within 120% the task goes to the first such
\* candidate, with that recommendation's score and reasoning.
C4_FirstFittingCandidate ==
    [][(pc = "assign" /\ idx <= Len(sorted_tasks) /\ schedule' # schedule) =>
        LET task == sorted_tasks[idx]
            recs == task.assignee_recommendations
            fit == FittingRecs(task)
        IN /\ \A i, j \in 1..Len(recs) : i < j => recs[i].rank <= recs[j].rank
           /\ fit # {} =>
                LET m == CHOOSE i \in fit : \A j \in fit : i <= j
                    b == LastBlock(schedule')
                IN /\ Len(schedule'.work_blocks)
                        = Len(schedule.work_blocks) + 1
                   /\ b.task = task.name
                   /\ b.employee = recs[m].employee
                   /\ b.fit_score = recs[m].fit_score
                   /\ b.reasoning = recs[m].reasoning]_vars

\* C4 witness: a task went to its second recommendation because the first
\* one, although in the pool, no longer fitted.
C4_Witness ==
    \E i \in 1..Len(schedule.work_blocks) :
        LET b == schedule.work_blocks[i]
            recs == tasks[b.task].assignee_recommendations
        IN /\ Len(recs) >= 2
           /\ b.reasoning # FallbackReasoning
           /\ b.employee = recs[2].employee
           /\ recs[1].employee # recs[2].employee
           /\ \E k \in 1..Len(employees) : employees[k].name = recs[1].employee

\* C5: when no recommended candidate is accepted, the task goes to an
\* employee below 100% whose utilization is minimal among the pool employees
\* below 100%, the earliest of them in pool order; nobody gets it only when
\* no employee is below 100%.
C5_FallbackLeastUtilized ==
    [][(pc = "assign" /\ idx <= Len(sorted_tasks) /\ schedule' # schedule
           /\ FittingRecs(sorted_tasks[idx]) = {}) =>
        LET below == {k \in 1..Len(employees) :
                        UtilizationIn(schedule, employees[k].name) < 1000}
        IN IF below = {}
           THEN schedule'.work_blocks = schedule.work_blocks
           ELSE LET b == LastBlock(schedule')
                    least == {k \in below : \A m \in below :
                                UtilizationIn(schedule, employees[k].name)
                                  <= UtilizationIn(schedule, employees[m].name)}
                    first == CHOOSE k \in least : \A m \in least : k <= m
                IN /\ Len(schedule'.work_blocks)
                        = Len(schedule.work_blocks) + 1
                   /\ b.task = sorted_tasks[idx].name
                   /\ b.employee = employees[first].name
                   /\ b.reasoning = FallbackReasoning]_vars

\* C5 witness: the first block of a run is a fallback block for the second
\* employee of the pool although the first one was below 100% too.
C5_Witness ==
    /\ schedule.work_blocks # <<>>
    /\ schedule.work_blocks[1].reasoning = FallbackReasoning
    /\ schedule.work_blocks[1].employee = employees[2].name
    /\ employees[1].current_utilization < 1000
    /\ employees[2].current_utilization < employees[1].current_utilization

\* the priority weights as C6 states them
C6_Weight(priority) ==
    IF priority = "Low" THEN 1
    ELSE IF priority = "Medium" THEN 2
    ELSE IF priority = "High" THEN 3
    ELSE IF priority = "Urgent" THEN 4
    ELSE 2

\* the key as C6 states it; the second and third components of the composite
\* key are scaled by 10 (0.5 -> 5, 0.3 -> 3), durations are in tenths of hours
C6_Key(task, obj) ==
    LET w == C6_Weight(task.priority)
        slip == IF task.slip_risk_percentage = None THEN 0
                ELSE task.slip_risk_percentage[1]
        dur == IF task.predicted_duration_hours = None THEN 80
               ELSE IF task.predicted_duration_hours[1] = 0 THEN 80
               ELSE task.predicted_duration_hours[1]
    IN IF obj = "minimize_delays" THEN <<0 - w, 0 - slip>>
       ELSE IF obj = "maximize_throughput" THEN <<dur, 0 - w>>
       ELSE <<0 - w, 0 - 5 * slip, 3 * dur>>

\* C6: sorted_tasks is the input list in ascending order of the objective's
\* key, tasks with equal keys in input order.
C6_SortedByObjectiveKey ==
    pc \in {"assign", "done"} =>
        /\ Len(sorted_tasks) = Len(tasks)
        /\ \A i \in 1..Len(tasks) : \E j \in 1..Len(tasks) :
              sorted_tasks[j] = tasks[i]
        /\ \A i, j \in 1..Len(sorted_tasks) :
              i < j =>
                LET ki == C6_Key(sorted_tasks[i], objective)
                    kj == C6_Key(sorted_tasks[j], objective)
                IN /\ ~LexLess(kj, ki)
                   /\ ki = kj => sorted_tasks[i].name < sorted_tasks[j].name

\* C6 witness: the sort moved a task forward and also kept two tasks with
\* equal keys in input order.
C6_Witness ==
    /\ pc = "done"
    /\ sorted_tasks # tasks
    /\ \E i, j \in 1..Len(sorted_tasks) :
          /\ i < j
          /\ C6_Key(sorted_tasks[i], objective)
                = C6_Key(sorted_tasks[j], objective)
    /\ \E i \in 1..Len(tasks) : tasks[i].slip_risk_percentage = None
    /\ \E i \in 1..Len(tasks) : tasks[i].priority = "Unset"

\* C7: per employee, the first block starts on the anchor date, every later
\* block starts the day after the latest end date of the earlier blocks,
\* every block ends at least one day after it starts, and no two blocks of
\* the employee overlap.
C7_SerialBlocks ==
    \A e \in DOMAIN schedule.employee_schedules :
        LET b == schedule.employee_schedules[e].blocks
        IN \A k \in 1..Len(b) :
              /\ k = 1 => b[k].start_date = current_date
              /\ k > 1 => b[k].start_date
                            = SetMax({b[m].end_date : m \in 1..(k - 1)}) + 1
              /\ b[k].end_date >= b[k].start_date + 1
              /\ \A m \in 1..(k - 1) : b[m].end_date < b[k].start_date

\* C7 witness: an employee holds three blocks, one of them longer than a day.
C7_Witness ==
    \E e \in DOMAIN schedule.employee_schedules :
        LET b == schedule.employee_schedules[e].blocks
        IN /\ Len(b) >= 3
           /\ \E k \in 1..Len(b) : b[k].end_date - b[k].start_date >= 2

\* the bookkeeping of C8 in one state
C8_Bookkeeping ==
    pc \in {"assign", "done"} =>
        \A k \in 1..Len(employees) :
            LET e == employees[k].name
                mine == BlocksOf(schedule, e)
            IN /\ schedule.employee_schedules[e].blocks = mine
               /\ schedule.employee_schedules[e].utilization
                     = employees[k].current_utilization + LoadOf(mine)
               /\ schedule.employee_schedules[e].total_hours = HoursOf(mine)

C9_RunsAreIndependent ==
    /\ [][tasks' = tasks /\ employees' = employees]_vars
    /\ [](\A i, j \in 1..Len(returned) :
             /\ returned[i].work_blocks = returned[j].work_blocks
             /\ returned[i].conflicts = returned[j].conflicts)

\* C9 witness: the second run has returned, with blocks and a conflict.
C9_Witness ==
    /\ Len(returned) >= 2
    /\ returned[2].work_blocks # <<>>
    /\ returned[2].conflicts # <<>>
    /\ returned[2].total_duration_days >= 2

(***************************************************************************)
(* Properties of the profile documents.                                    *)
(***************************************************************************)
\* C10: after any sequence of complete generate_ai_task_profile,
\* generate_predictions, auto_create_ai_profile and
\* regenerate_task_predictions calls, no task has more than one AI Task
\* Profile.
C10_OneProfilePerTask ==
    \A t \in TaskNames : Cardinality(ProfilesOf(profiles, t)) <= 1

\* C10 witness: only TASK-1 exists, so every one of the calls was made for
\* it; it holds one profile that is not the first one inserted and that
\* generate_predictions has updated since.
C10_Witness ==
    /\ task_docs = {"TASK-1"}
    /\ api_calls >= 4
    /\ \E p \in profiles :
          /\ p.task = "TASK-1"
          /\ p.name >= 2
          /\ p.model_version = ApiVersion
    /\ Cardinality(profiles) = 1

(***************************************************************************)
(* Properties of interleaved profile creation.                             *)
(***************************************************************************)
\* C11: when profile-creating executions for the same task interleave, at
\* most one AI Task Profile is created for the task: any two profiles of
\* one task are the same document.
C11_AtMostOneProfileUnderRace ==
    \A p, q \in profiles : p.task = q.task => p.name = q.name

(***************************************************************************)
(* Properties of the profile operations run one after another.             *)
(***************************************************************************)
\* C12: after any number of generate_predictions and
\* regenerate_task_predictions calls a profile holds only the
\* recommendations of the latest call: at most 5 rows, and no two rows
\* with the same rank.
C12_OnlyLatestRecommendations ==
    \A p \in profiles :
        /\ Len(p.recommended_assignees) <= 5
        /\ \A i, j \in 1..Len(p.recommended_assignees) :
              i # j => p.recommended_assignees[i] # p.recommended_assignees[j]

(***************************************************************************)
(* Properties of lead conversion.                                          *)
(***************************************************************************)
\* C13: a Project whose source lead is L exists only after a Project
\* Planning for L was submitted with planning_status "Approved": some
\* planning of L has left docstatus 0 (a submission sets planning_status to
\* "Approved"; a later cancel keeps docstatus at 2).
C13_ProjectOnlyAfterApprovedPlanning ==
    \A proj \in projects :
        \E p \in PlanningsOf(proj.custom_source_lead) : p.docstatus # 0

(***************************************************************************)
(* Properties of the predictors.                                           *)
(***************************************************************************)
PipelineOrApi == {PipelineVersion, ApiVersion}

\* C14: every slip-risk value produced for a task, by calculate_slip_risk,
\* by get_ai_predictions or by auto_create_ai_profile, is a percentage
\* between 5 and 80.
C14_SlipRiskIsPercentage ==
    predicted # None =>
        /\ predicted[1].slip_risk_percentage >= 500
        /\ predicted[1].slip_risk_percentage <= 8000

\* C15: every predicted duration of get_ai_predictions (after the rounding)
\* and of calculate_predicted_duration is strictly greater than 0, for every
\* template default duration and task text.
C15_DurationPositive ==
    (predicted # None /\ predicted[1].model_version \in PipelineOrApi) =>
        predicted[1].predicted_duration_hours > 0

\* C16: the confidence of a prediction lies in [0.3, 1.0]; that of
\* calculate_confidence_score is 0.6, +0.15 for a description longer than
\* 50 characters, +0.1 for a priority, +0.1 for a project, +0.15 for a
\* template source, -0.1 if the complexity is above 0.8, clamped to
\* [0.3, 1.0].
C16_ConfidenceFormulaAndRange ==
    predicted # None =>
        LET p == predicted[1]
            sum == 60
                   + (IF task_in.description # None
                         /\ task_in.description[1].long THEN 15 ELSE 0)
                   + (IF task_in.priority THEN 10 ELSE 0)
                   + (IF task_in.project # None THEN 10 ELSE 0)
                   + (IF task_in.template # None THEN 15 ELSE 0)
                   - (IF p.complexity_score > 80 THEN 10 ELSE 0)
        IN  /\ p.confidence_score >= 30
            /\ p.confidence_score <= 100
            /\ p.model_version = ApiVersion =>
                  p.confidence_score =
                      (IF sum > 100 THEN 100 ELSE IF sum < 30 THEN 30 ELSE sum)

\* calculate_confidence_score has run on a task with a long description, a
\* priority, a project and a template: the sum 1.1 came out as 1.0; or on
\* a task whose complexity is above 0.8
C16_Witness ==
    /\ predicted # None
    /\ predicted[1].model_version = ApiVersion
    /\ task_in.priority
    /\ task_in.project # None
    /\ task_in.template # None
    /\ task_in.description # None
    /\ task_in.description[1].long
    /\ predicted[1].complexity_score <= 80
    /\ predicted[1].confidence_score = 100

\* C17: both complexity variants, the flat keyword list of
\* extract_task_features and the three tiers of calculate_complexity_score,
\* return a score in [0.1, 1.0] however many keywords match.
C17_ComplexityRange ==
    (predicted # None /\ predicted[1].model_version \in PipelineOrApi) =>
        /\ predicted[1].complexity_score >= 10
        /\ predicted[1].complexity_score <= 100

\* extract_task_features has run on a text with nine of its keywords
\* (0.3 + 0.9 before the cap)
C17_Witness ==
    /\ predicted # None
    /\ predicted[1].model_version = PipelineVersion
    /\ CountHits(complexity_keywords, TextContent(task_in)) >= 8
    /\ predicted[1].complexity_score = 100

\* C18: every stored AI Task Profile has 0 <= confidence_score <= 1,
\* 0 <= complexity_score <= 1, 0 <= slip_risk_percentage <= 100 and
\* predicted_duration_hours > 0; validate lets no other document through.
C18_StoredProfileInRange ==
    saved_doc # None =>
        /\ saved_doc[1].confidence_score >= 0
        /\ saved_doc[1].confidence_score <= 100
        /\ saved_doc[1].complexity_score >= 0
        /\ saved_doc[1].complexity_score <= 100
        /\ saved_doc[1].slip_risk_percentage >= 0
        /\ saved_doc[1].slip_risk_percentage <= 10000
        /\ saved_doc[1].predicted_duration_hours > 0

\* C19: calculate_predicted_duration takes the base of the first bucket,
\* in the order call/meeting/discovery (4 h), training/session (16 h),
\* migration/setup/installation (20 h), development/custom/workflow (32 h),
\* else 8 h, that has a keyword in the subject; a subject with both "call"
\* and "migration" gets the 4-hour base.
C19_FirstBucketWins ==
    (predicted # None /\ predicted[1].model_version = ApiVersion) =>
        LET subject == task_in.subject
            has(bucket) == \E keyword \in bucket : keyword \in subject
            factor == 1000 + 15 * predicted[1].complexity_score
            duration == predicted[1].predicted_duration_hours
            from(base) == duration = RoundDiv(base * factor, 100)
        IN  /\ has({"call", "meeting", "discovery"}) => from(4)
            /\ (~has({"call", "meeting", "discovery"})
                  /\ has({"training", "session"})) => from(16)
            /\ (~has({"call", "meeting", "discovery"})
                  /\ ~has({"training", "session"})
                  /\ has({"migration", "setup", "installation"})) => from(20)
            /\ (~has({"call", "meeting", "discovery"})
                  /\ ~has({"training", "session"})
                  /\ ~has({"migration", "setup", "installation"})
                  /\ has({"development", "custom", "workflow"})) => from(32)
            /\ (~has({"call", "meeting", "discovery"})
                  /\ ~has({"training", "session"})
                  /\ ~has({"migration", "setup", "installation"})
                  /\ ~has({"development", "custom", "workflow"})) => from(8)
            /\ ({"call", "migration"} \subseteq subject) => from(4)

\* calculate_predicted_duration has run on a subject with both "call" and
\* "migration"
C19_Witness ==
    /\ predicted # None
    /\ predicted[1].model_version = ApiVersion
    /\ {"call", "migration"} \subseteq task_in.subject

(***************************************************************************)
(* Properties of the rankers.                                              *)
(***************************************************************************)
\* C20: given the same task text and the same employee pool in the same
\* order, a ranker returns the same ranked list with the same fit_scores
\* on every call and across reruns.
C20_RankerDeterministic ==
    \A i, j \in 1..Len(ranked) :
        (ranked[i].ranker = ranked[j].ranker
           /\ ranked[i].subject = ranked[j].subject)
        => ranked[i].result = ranked[j].result

(***************************************************************************)
(* Properties of pipeline.get_assignee_recommendations.                    *)
(***************************************************************************)
\* the candidates the ranker scores: the first 10 Active employees
C21_Scored == 1..Min(10, Len(active_employees))

C21_ScoreOf(i) ==
    calculate_assignee_score(active_employees[i], template_category)

\* C21: get_assignee_recommendations scores at most the first 10 active
\* employees and returns at most 5 candidates, sorted by fit_score in
\* non-increasing order with ties kept in enumeration order, each with
\* rank equal to its 1-based position; every returned candidate has a
\* fit_score at least as high as every scored candidate not returned.
C21_TopFiveOfFirstTen ==
    recommended # None =>
        LET recs == recommended[1]
            returned_names == {recs[i].employee : i \in 1..Len(recs)}
        IN  /\ Len(recs) <= 5
            /\ \A i \in 1..Len(recs) :
                  /\ recs[i].employee \in C21_Scored
                  /\ recs[i].fit_score = C21_ScoreOf(recs[i].employee)
                  /\ recs[i].rank = i
            /\ \A i, j \in 1..Len(recs) :
                  i < j =>
                     \/ recs[i].fit_score > recs[j].fit_score
                     \/ /\ recs[i].fit_score = recs[j].fit_score
                        /\ recs[i].employee < recs[j].employee
            /\ \A e \in C21_Scored \ returned_names :
                  \A i \in 1..Len(recs) : recs[i].fit_score >= C21_ScoreOf(e)

\* a table of more than 10 employees whose eleventh would have outscored
\* a returned candidate, with a tie inside the result and a tie at the cut
C21_Witness ==
    /\ recommended # None
    /\ Len(active_employees) > 10
    /\ LET recs == recommended[1]
       IN  /\ Len(recs) = 5
           /\ calculate_assignee_score(active_employees[11],
                                       template_category)
                 > recs[5].fit_score
           /\ recs[1].fit_score > recs[5].fit_score
           /\ recs[4].fit_score = recs[5].fit_score
           /\ \E e \in C21_Scored :
                 /\ \A i \in 1..5 : recs[i].employee # e
                 /\ C21_ScoreOf(e) = recs[5].fit_score

\* C22: for every task the predicted due date is the start date plus
\* ceil(duration_hours / 8) working days inflated by the factor 1.4, plus
\* a per-task offset of (hash(task_id) mod 10) + 1 days, the offset being
\* between 1 and 10.
C22_DueDateFormula ==
    (predicted # None /\ due_days # None
       /\ predicted[1].model_version \in PipelineOrApi) =>
        LET duration == predicted[1].predicted_duration_hours
            working_days == (duration + 8 * 10 - 1) \div (8 * 10)
            offset == task_hash + 1
        IN  /\ offset \in 1..10
            /\ due_days[1] = (working_days * 14) \div 10 + offset

(***************************************************************************)
(* Properties of the scheduler on malformed durations.                     *)
(***************************************************************************)
\* C23: the scheduler accepts a task whose predicted_duration_hours is
\* missing, None, zero or non-numeric: the duration is replaced by 8 hours
\* and no exception propagates out of build_greedy_schedule or
\* generate_project_schedule because of that field.
C23_MalformedDurationAccepted ==
    /\ pc # "raised"
    /\ \A i \in 1..Len(schedule.work_blocks) :
          schedule.work_blocks[i].duration_hours = DefaultDurationHours

(***************************************************************************)
(* The utilization a complete scheduler run may leave.                     *)
(***************************************************************************)
\* C24: after a complete build_greedy_schedule run that starts with every
\* employee's utilization at or below 100%, no employee's utilization
\* exceeds 120%, whichever mix of recommended-path and fallback-path
\* assignments was made.
C24_UtilizationAtMost120 ==
    (pc = "done"
       /\ \A i \in 1..Len(employees) :
             employees[i].current_utilization <= MaxFallbackUtilization * 10)
    => \A e \in DOMAIN schedule.employee_schedules :
          schedule.employee_schedules[e].utilization
              <= MaxRecommendedUtilization * 10

(***************************************************************************)
(* Properties of the Project Planning workflow.                            *)
(***************************************************************************)
\* a step in which planning n was submitted (the submission ended in a way
\* or for a planning other than the last one did)
C25_Submitted(n) ==
    /\ last_submit' # last_submit
    /\ last_submit' # None
    /\ last_submit'[1].planning = n

C26_OnePlanningPerQualifiedLead ==
    [][\A lead \in Leads :
          /\ Cardinality({p \in plannings' : p.lead = lead}) <= 1
          /\ ({p \in plannings' : p.lead = lead} # {} /\ PlanningsOf(lead) = {})
             => lead_status'[lead] \in PlanningStatuses]_vars

(***************************************************************************)
(* Properties of the conversion of a lead into a Project.                  *)
(***************************************************************************)
\* the Projects made for a lead, whichever field carries the lead
C27_ProjectsFor(lead) ==
    {p \in projects : p.custom_source_lead = lead
                        \/ p.custom_lead_reference = lead}

\* C27: after any sequence of auto_process_converted_lead and
\* ProjectPlanning.create_project_and_tasks calls for the same lead, at
\* most one Project has been created for that lead, whether through a Lead
\* Segment with templates, the segment's default project or the default
\* workflow, and also when a step of an earlier call failed part-way.
C27_OneProjectPerLead ==
    \A lead \in Leads : Cardinality(C27_ProjectsFor(lead)) <= 1

(***************************************************************************)
(* Properties of the date scheduler.                                       *)
(***************************************************************************)
Scheduled ==
    schedule_result # None /\ schedule_result[1].status = "success"

InSomeLevel(name) ==
    \E k \in 1..Len(task_levels) : name \in NamesOf(task_levels[k])

\* the key of the level in the dict of the code
LevelOf(name) ==
    (CHOOSE k \in 1..Len(task_levels) : name \in NamesOf(task_levels[k])) - 1

DatesOf(name) ==
    task_dates[CHOOSE i \in 1..Len(task_dates) : task_dates[i].task = name]

\* every task depends only on tasks of the list created before it
DependsOnEarlierOnly ==
    \A i \in 1..Len(project_tasks) :
        \A d \in project_tasks[i].depends_on : d \in 1..(i - 1)

\* C28: after schedule_project_tasks succeeded on a list whose tasks depend
\* only on tasks created before them, every task without dependencies is in
\* level 0, and every task with dependencies is in a level strictly greater
\* than the level of each task it depends on and starts no earlier than
\* that task ends.
C28_DependentsAfterDependencies ==
    (Scheduled /\ DependsOnEarlierOnly) =>
        \A i \in 1..Len(project_tasks) :
            LET task == project_tasks[i]
            IN /\ task.depends_on = {} => LevelOf(task.name) = 0
               /\ \A d \in task.depends_on :
                      /\ LevelOf(task.name) > LevelOf(d)
                      /\ DatesOf(task.name).exp_start_date
                             >= DatesOf(d).exp_end_date

LevelsHolding(name) ==
    {k \in 1..Len(task_levels) : name \in NamesOf(task_levels[k])}

\* C29: after schedule_project_tasks succeeded, every task of the list is
\* in exactly one level, every task has dates, and updated_count is the
\* number of tasks.
C29_EveryTaskScheduled ==
    Scheduled =>
        /\ \A i \in 1..Len(project_tasks) :
               /\ Cardinality(LevelsHolding(project_tasks[i].name)) = 1
               /\ \E j \in 1..Len(task_dates) :
                      task_dates[j].task = project_tasks[i].name
        /\ schedule_result[1].updated_count = Len(project_tasks)

(***************************************************************************)
(* Properties of fix_duplicate_dates.                                      *)
(***************************************************************************)
Moved(n) == fixed_tasks[n] # dated_tasks[n]

DurationOf(row) == row.exp_end_date[1] - row.exp_start_date[1]

\* C30: after fix_duplicate_dates succeeded, no two tasks that are neither
\* Cancelled nor Completed and have a start date have the same pair of
\* dates, and every task it moved has the duration it had before.
C30_NoDuplicateDatesLeft ==
    fix_result = "success" =>
        /\ \A n, m \in 1..Len(fixed_tasks) :
               (n # m /\ OpenDated(fixed_tasks[n]) /\ OpenDated(fixed_tasks[m]))
                   => ~SameDates(fixed_tasks[n], fixed_tasks[m])
        /\ \A n \in 1..Len(fixed_tasks) :
               Moved(n) =>
                   DurationOf(fixed_tasks[n]) = DurationOf(dated_tasks[n])

====
